---- MODULE Spec2Model ----
(***************************************************************************)
(* Verification model of the tool execution engine (BaseTool.execute and   *)
(* its result cache) and of the tool registry (ToolRegistry) of the        *)
(* Ollama MCP server.                                                      *)
(*                                                                         *)
(* Time is a discrete clock `now`.  asyncio runs every piece of code       *)
(* between two awaits atomically, so each action below is one such piece:  *)
(* the synchronous prefix of a handler up to its first await, or the       *)
(* resumption of a suspended handler up to its return.                     *)
(***************************************************************************)
EXTENDS Integers, Sequences, FiniteSets, TLC

(***************************************************************************)
(* Bounds of the model.                                                    *)
(***************************************************************************)
\* Last instant of the discrete clock.
MaxTime == 4
\* config.tools.cache_ttl, scaled to the model's clock.
CacheTtl == 1
\* config.tools.execution_timeout, scaled to the model's clock.
ExecutionTimeout == 2
\* Tool instances ever constructed (register_tool constructs one per call).
MaxInst == 3

\* The global deadline of health_check_all (timeout=30.0), scaled to the
\* model's clock.
HealthDeadline == 2

\* Identifiers of the execute calls that can be in flight at the same time.
CallIds == {"c1", "c2"}

Insts == 1..MaxInst

\* Optional[float] execution_time of a ToolResult that was never set.
NoTime == -1

(***************************************************************************)
(* Values.  Python's None is the string "None".                            *)
(***************************************************************************)
None == "None"

\* What a tool's _execute can return; None is a legal return value.
Values == {None, "r1", "r2"}

\* JSON values an argument map can hold: a tag and the literal's text.
\* "obj" is a Python object json.dumps cannot serialise (bytes, a set).
JStr(s) == [t |-> "str", v |-> s]
JInt(s) == [t |-> "int", v |-> s]
JBool(s) == [t |-> "bool", v |-> s]
JObj == [t |-> "obj", v |-> "bytes"]

\* Argument keys, in the order Python's sorted() gives them: the keys of
\* the engine's callers, then those of the gateway tools.
KeyOrder == <<"a", "b", "c",
              "server_name", "sse_url", "stdio_command", "transport_type">>
ArgKeys == {"a", "b", "c"}

\* A dict is the sequence of its items in insertion order; an argument that
\* is no dict (a str, a list) has isDict = FALSE.
Dict(items) == [isDict |-> TRUE, items |-> items]
NonDict == [isDict |-> FALSE, items |-> <<>>]

Item(k, v) == [k |-> k, v |-> v]

\* The value stored under key k of a dict's items (None when absent).
Lookup(items, k) ==
  IF \E i \in 1..Len(items) : items[i].k = k
  THEN items[CHOOSE i \in 1..Len(items) : items[i].k = k].v
  ELSE [t |-> "absent", v |-> ""]

HasKey(items, k) == \E i \in 1..Len(items) : items[i].k = k

\* The key/value pairs of a dict.
PairSet(x) == {x.items[i] : i \in 1..Len(x.items)}

\* Two dicts are equal in Python when they hold the same key/value pairs,
\* whatever the insertion order.
SamePairs(x, y) ==
  /\ x.isDict = y.isDict
  /\ PairSet(x) = PairSet(y)

(***************************************************************************)
(* get_cache_key: json.dumps(arguments, sort_keys=True), md5, tool name.   *)
(***************************************************************************)
\* json.dumps of one value: strings are quoted, numbers and booleans bare.
JsonValue(v) ==
  CASE v.t = "str" -> "\"" \o v.v \o "\""
    [] v.t = "int" -> v.v
    [] v.t = "bool" -> v.v
    [] OTHER -> "<TypeError>"

\* json.dumps raises TypeError on a value it cannot serialise.
JsonSerializable(items) == \A i \in 1..Len(items) : items[i].v.t # "obj"

\* The items of a dict in sorted key order (sort_keys=True).
RECURSIVE SortedItems(_, _)
SortedItems(items, n) ==
  IF n > Len(KeyOrder) THEN <<>>
  ELSE (IF HasKey(items, KeyOrder[n])
        THEN <<Item(KeyOrder[n], Lookup(items, KeyOrder[n]))>>
        ELSE <<>>) \o SortedItems(items, n + 1)

\* A plausible bug: the items are serialised in insertion order.
SortKeysUnsorted(items) == items

SortKeys(items) == SortedItems(items, 1)

RECURSIVE JsonItems(_)
JsonItems(items) ==
  IF items = <<>> THEN ""
  ELSE "\"" \o Head(items).k \o "\": " \o JsonValue(Head(items).v)
       \o (IF Len(items) > 1 THEN ", " ELSE "") \o JsonItems(Tail(items))

JsonDumps(items) == "{" \o JsonItems(SortKeys(items)) \o "}"

\* hashlib.md5(s).hexdigest(): the digest is identified with the text it
\* digests, i.e. md5 is taken to be collision-free on the model's inputs.
Md5Hex(s) == "md5(" \o s \o ")"

GetCacheKey(name, arguments) == name \o ":" \o Md5Hex(JsonDumps(arguments.items))

(***************************************************************************)
(* State.                                                                  *)
(***************************************************************************)
VARIABLES
  now,             \* time.time()
  enable_caching,  \* config.tools.enable_caching
  instName,        \* BaseTool.name of each constructed tool instance
  cache,           \* BaseTool._cache of each tool instance: key -> entry
  call,            \* the execute calls: position, locals, result
  worker,          \* per call: the worker thread _execute handed its work to
  lastSuccess,     \* history: per instance and argument pairs, the last
                   \* cache-enabled execute whose _execute returned normally
                   \* (forgotten by clear_cache)
  tools,           \* ToolRegistry._tools: the registered names, in order
  toolInst,        \* ToolRegistry._tools: name -> tool instance (0: absent)
  categories,      \* ToolRegistry._categories: category -> list of names
  nextInst,        \* instances constructed so far
  regCall,         \* the last registry operation and its outcome
  hc,              \* health_check_all: position, tasks, health_results
  keyIn,           \* get_cache_key under test: the two argument maps
  keyOut,          \* get_cache_key under test: the two keys
  connected_servers, \* MCPGatewayManager.connected_servers, in insertion order
  sessions,        \* the upstream sessions the session group holds open
  nextSession,     \* sessions opened so far
  gw,              \* the gateway operation in progress: position, locals
  handler,         \* the protocol-level call_tool handler: position, response
  parked,          \* a second gateway operation, suspended at its await
  ollama,          \* make_ollama_request: position, attempt, waits, outcome
  server           \* OllamaMCPServer: position, running, shutdown progress

engineVars == <<now, enable_caching, instName, cache, call, worker, lastSuccess>>
regVars == <<tools, toolInst, categories, nextInst, regCall, hc>>
keyVars == <<keyIn, keyOut>>
gwVars == <<connected_servers, sessions, nextSession, gw>>
handlerVars == <<handler>>
procVars == <<parked, ollama, server>>
vars == <<engineVars, regVars, keyVars, gwVars, handlerVars, procVars>>

(***************************************************************************)
(* ToolExecutionContext and ToolResult.                                    *)
(***************************************************************************)
\* context.timeout: Optional[int]; has = FALSE is None (also context=None).
NoCtx == [has |-> FALSE, val |-> 0]
CtxTimeout(n) == [has |-> TRUE, val |-> n]
CtxSet == {NoCtx, CtxTimeout(0), CtxTimeout(1), CtxTimeout(0 - 1)}

\* The ToolResult of the success path that forgets execution_time.
SuccessResultNoTime(data, et) ==
  [success |-> TRUE, data |-> data, error |-> None, metadata |-> None,
   execution_time |-> NoTime]

\* ToolResult(success=True, data=result, execution_time=execution_time)
SuccessResult(data, et) ==
  [success |-> TRUE, data |-> data, error |-> None, metadata |-> None,
   execution_time |-> et]

\* ToolResult(success=True, data=cached_result, execution_time=...,
\*            metadata={"cached": True})
CachedResult(data, et) ==
  [success |-> TRUE, data |-> data, error |-> None, metadata |-> "cached",
   execution_time |-> et]

\* ToolResult(success=False, error=error_message, execution_time=...)
FailureResult(err, et) ==
  [success |-> FALSE, data |-> None, error |-> err, metadata |-> None,
   execution_time |-> et]

\* No ToolResult (the call has not returned one).
NoResult ==
  [success |-> FALSE, data |-> None, error |-> None, metadata |-> None,
   execution_time |-> NoTime]

(***************************************************************************)
(* The steps of BaseTool.execute.                                          *)
(***************************************************************************)
\* A plausible bug: validate_arguments accepts whatever it is handed.
ValidateArgumentsLax(arguments) == TRUE

\* validate_arguments: isinstance(arguments, dict), else ValueError.
ValidateArguments(arguments) == arguments.isDict

\* should_cache_result
ShouldCacheResult == enable_caching

\* A dict with key k bound to entry e; a dict without key k.
DictPut(d, k, e) == [x \in (DOMAIN d) \cup {k} |-> IF x = k THEN e ELSE d[x]]
DictDel(d, k) == [x \in (DOMAIN d) \ {k} |-> d[x]]
EmptyDict == <<>>

\* A plausible bug: the expiry test is skipped, a stale entry is served.
GetCachedResultNoExpiry(d, key, t) ==
  IF ~enable_caching \/ key \notin DOMAIN d
  THEN [ret |-> None, cache |-> d]
  ELSE [ret |-> d[key].result, cache |-> d]

\* get_cached_result: what it returns and the cache it leaves.  None is
\* both "absent" and a cached result of None.
GetCachedResult(d, key, t) ==
  IF ~enable_caching THEN [ret |-> None, cache |-> d]
  ELSE IF key \notin DOMAIN d THEN [ret |-> None, cache |-> d]
  ELSE IF t - d[key].timestamp > CacheTtl
       THEN [ret |-> None, cache |-> DictDel(d, key)]
       ELSE [ret |-> d[key].result, cache |-> d]

\* cache_result
CacheResult(d, key, result, t) ==
  IF ~enable_caching THEN d
  ELSE DictPut(d, key, [result |-> result, timestamp |-> t])

\* timeout = context.timeout or self.config.tools.execution_timeout
TimeoutFor(ctx) ==
  IF ctx.has /\ ctx.val # 0 THEN ctx.val ELSE ExecutionTimeout

\* str(e) of the exceptions execute can see.
ErrorMessage(exc, timeout) ==
  CASE exc = "ValueError" -> "Arguments must be a dictionary"
    [] exc = "TypeError" -> "Object of type bytes is not JSON serializable"
    [] exc = "TimeoutError" ->
         "Tool execution timed out after " \o ToString(timeout) \o " seconds"
    [] OTHER -> "tool failure"

\* A plausible bug: the handler names the exceptions it expects.
CaughtNarrow(exc) == exc \in {"ValueError", "TimeoutError"}

\* except Exception: every exception class raised inside the try block.
Caught(exc) == exc \in {"ValueError", "TypeError", "TimeoutError", "Exception"}

IdleCall ==
  [pc |-> "idle", inst |-> 0, args |-> NonDict, ctx |-> NoCtx, start |-> 0,
   key |-> None, timeout |-> 0, kind |-> "none", invoked |-> FALSE,
   coro |-> "none", fired |-> FALSE, cancelSent |-> FALSE, exc |-> None,
   effect |-> FALSE, lateEffect |-> FALSE, result |-> NoResult,
   audit |-> <<>>, perf |-> <<>>]

\* A plausible bug: the except block returns the failed ToolResult without
\* writing the audit record.
FailUnaudited(r, exc, t) ==
  IF Caught(exc)
  THEN [r EXCEPT !.pc = "returned", !.exc = exc,
          !.result = FailureResult(ErrorMessage(exc, r.timeout), t - r.start),
          !.perf = Append(@, [success |-> FALSE])]
  ELSE [r EXCEPT !.pc = "raised", !.exc = exc]

\* The except block: audit record, performance record, failed ToolResult.
Fail(r, exc, t) ==
  IF Caught(exc)
  THEN [r EXCEPT !.pc = "returned", !.exc = exc,
          !.result = FailureResult(ErrorMessage(exc, r.timeout), t - r.start),
          !.audit = Append(@, [success |-> FALSE,
                               error |-> ErrorMessage(exc, r.timeout)]),
          !.perf = Append(@, [success |-> FALSE])]
  ELSE [r EXCEPT !.pc = "raised", !.exc = exc]

\* The tail of the try block after _execute returned.
Succeed(r, data, t) ==
  [r EXCEPT !.pc = "returned",
     !.result = SuccessResult(data, t - r.start),
     !.audit = Append(@, [success |-> TRUE, error |-> None]),
     !.perf = Append(@, [success |-> TRUE])]

\* The early return of a cache hit.
CacheHit(r, data, t) ==
  [r EXCEPT !.pc = "returned", !.result = CachedResult(data, t - r.start)]

\* How an _execute body reacts to its cancellation: "async" bodies await
\* native I/O and unwind, "executor" bodies await loop.run_in_executor (the
\* coroutine unwinds, the worker thread runs on), "swallow" bodies await
\* inside a bare except and carry on.
BodyKinds == {"async", "executor", "swallow"}

\* Argument values the execute calls are made with: the same pairs in two
\* insertion orders, a different map, a map json.dumps rejects, a non-dict.
ArgsAB == Dict(<<Item("a", JInt("1")), Item("b", JStr("x"))>>)
ArgsBA == Dict(<<Item("b", JStr("x")), Item("a", JInt("1"))>>)
ArgsOther == Dict(<<Item("a", JStr("1"))>>)
ArgsUnser == Dict(<<Item("a", JObj)>>)
EngineArgs == {ArgsAB, ArgsBA, ArgsOther, ArgsUnser, NonDict}

\* The instant the wait_for timer of a suspended call goes off.
DeadlineAt(r) == r.start + r.timeout

(***************************************************************************)
(* BaseTool.execute on tool instance i, from its entry to its first await  *)
(* (asyncio.wait_for) or to its return, whichever comes first.             *)
(***************************************************************************)
Execute(c, i, arguments, ctx, kind) ==
  /\ call[c].pc = "idle"
  /\ LET r0 == [IdleCall EXCEPT !.inst = i, !.args = arguments, !.ctx = ctx,
                                !.start = now]
     IN
     IF ~ValidateArguments(arguments)
     THEN /\ call' = [call EXCEPT ![c] = Fail(r0, "ValueError", now)]
          /\ UNCHANGED <<cache, worker>>
     ELSE IF ShouldCacheResult /\ ~JsonSerializable(arguments.items)
     THEN /\ call' = [call EXCEPT ![c] = Fail(r0, "TypeError", now)]
          /\ UNCHANGED <<cache, worker>>
     ELSE
       LET key == IF ShouldCacheResult
                  THEN GetCacheKey(instName[i], arguments) ELSE None
           look == IF key # None THEN GetCachedResult(cache[i], key, now)
                   ELSE [ret |-> None, cache |-> cache[i]]
           r1 == [r0 EXCEPT !.key = key]
           r2 == [r1 EXCEPT !.timeout = TimeoutFor(ctx), !.invoked = TRUE]
       IN
       IF look.ret # None
       THEN /\ call' = [call EXCEPT ![c] = CacheHit(r1, look.ret, now)]
            /\ cache' = [cache EXCEPT ![i] = look.cache]
            /\ UNCHANGED worker
       ELSE IF r2.timeout <= 0
       THEN \* wait_for cancels the task before its first step
            /\ call' = [call EXCEPT ![c] =
                 Fail([r2 EXCEPT !.coro = "cancelled", !.fired = TRUE,
                                 !.cancelSent = TRUE], "TimeoutError", now)]
            /\ cache' = [cache EXCEPT ![i] = look.cache]
            /\ UNCHANGED worker
       ELSE /\ call' = [call EXCEPT ![c] =
                 [r2 EXCEPT !.pc = "waiting", !.coro = "running",
                            !.kind = kind]]
            /\ cache' = [cache EXCEPT ![i] = look.cache]
            /\ worker' = [worker EXCEPT ![c] =
                 IF kind = "executor" THEN "running" ELSE "none"]
  /\ UNCHANGED <<now, enable_caching, instName, lastSuccess>>

\* _execute returns v: wait_for hands v to execute, which caches it, logs
\* and returns.  Also reached after a swallowed cancellation ("draining").
BodyReturn(c, v) ==
  /\ call[c].pc \in {"waiting", "draining"}
  /\ call[c].coro = "running"
  /\ LET r == call[c] IN
     /\ call' = [call EXCEPT ![c] =
          Succeed([r EXCEPT !.coro = "returned", !.effect = TRUE], v, now)]
     /\ cache' = IF r.key # None
                 THEN [cache EXCEPT ![r.inst] = CacheResult(@, r.key, v, now)]
                 ELSE cache
     /\ lastSuccess' = IF r.key # None
                       THEN [lastSuccess EXCEPT ![r.inst] =
                               DictPut(@, PairSet(r.args), [data |-> v, at |-> now])]
                       ELSE lastSuccess
     /\ worker' = [worker EXCEPT ![c] =
          IF r.kind = "executor" THEN "finished" ELSE @]
  /\ UNCHANGED <<now, enable_caching, instName>>

\* _execute raises an Exception.
BodyRaise(c) ==
  /\ call[c].pc \in {"waiting", "draining"}
  /\ call[c].coro = "running"
  /\ call' = [call EXCEPT ![c] =
       Fail([call[c] EXCEPT !.coro = "raised"], "Exception", now)]
  /\ worker' = [worker EXCEPT ![c] =
       IF call[c].kind = "executor" THEN "finished" ELSE @]
  /\ UNCHANGED <<now, enable_caching, instName, cache, lastSuccess>>

\* A plausible bug (a hand-made timeout in place of wait_for): the timer
\* releases the waiting caller and leaves the coroutine running.
DeadlineLeaky(c) ==
  /\ call[c].pc = "waiting"
  /\ now >= DeadlineAt(call[c])
  /\ call' = [call EXCEPT ![c] =
       Fail([call[c] EXCEPT !.fired = TRUE], "TimeoutError", now)]
  /\ UNCHANGED <<now, enable_caching, instName, cache, worker, lastSuccess>>

\* The wait_for timer goes off while _execute is suspended: wait_for cancels
\* the coroutine and waits for it to end.  A body that lets CancelledError
\* through ends at once and wait_for raises TimeoutError; a body that
\* swallows it keeps running and wait_for keeps waiting.
Deadline(c) ==
  /\ call[c].pc = "waiting"
  /\ now >= DeadlineAt(call[c])
  /\ LET r == [call[c] EXCEPT !.fired = TRUE, !.cancelSent = TRUE] IN
     call' = [call EXCEPT ![c] =
       IF r.kind = "swallow"
       THEN [r EXCEPT !.pc = "draining"]
       ELSE Fail([r EXCEPT !.coro = "cancelled"], "TimeoutError", now)]
  /\ UNCHANGED <<now, enable_caching, instName, cache, worker, lastSuccess>>

\* The worker thread of a cancelled coroutine finishes its work.
WorkerFinish(c) ==
  /\ worker[c] = "running"
  /\ call[c].coro = "cancelled"
  /\ worker' = [worker EXCEPT ![c] = "finished"]
  /\ call' = [call EXCEPT ![c] =
       [@ EXCEPT !.effect = TRUE, !.lateEffect = (call[c].pc = "returned")]]
  /\ UNCHANGED <<now, enable_caching, instName, cache, lastSuccess>>

\* The caller takes the result; the slot is free for the next call.
Consume(c) ==
  /\ call[c].pc \in {"returned", "raised"}
  /\ worker[c] # "running"
  /\ call' = [call EXCEPT ![c] = IdleCall]
  /\ worker' = [worker EXCEPT ![c] = "none"]
  /\ UNCHANGED <<now, enable_caching, instName, cache, lastSuccess>>

\* BaseTool.clear_cache
ClearCache(i) ==
  /\ instName[i] # None
  /\ cache' = [cache EXCEPT ![i] = EmptyDict]
  /\ lastSuccess' = [lastSuccess EXCEPT ![i] = EmptyDict]
  /\ UNCHANGED <<now, enable_caching, instName, call, worker>>

\* Time passes; a timer that is due goes off before the clock moves on.
Tick ==
  /\ now < MaxTime
  /\ \A c \in CallIds : call[c].pc = "waiting" => now < DeadlineAt(call[c])
  /\ hc.pc = "running" => now < hc.start + HealthDeadline
  /\ now' = now + 1
  /\ UNCHANGED <<enable_caching, instName, cache, call, worker, lastSuccess>>

(***************************************************************************)
(* The engine on its own: one tool instance, called directly.              *)
(***************************************************************************)
EngineTool == "mock_tool"

\* health_check_all is not running.
HcIdle ==
  [pc |-> "idle", start |-> 0, order |-> <<>>, tasks |-> EmptyDict,
   results |-> EmptyDict, timedOut |-> FALSE, outcome |-> None]

RegInit ==
  /\ tools = <<>>
  /\ toolInst = [n \in {} |-> 0]
  /\ categories = [n \in {} |-> <<>>]
  /\ nextInst = 0
  /\ regCall = [op |-> "none"]
  /\ hc = HcIdle

KeyInit ==
  /\ keyIn = <<NonDict, NonDict>>
  /\ keyOut = <<None, None>>

\* No gateway operation is running.
GwIdle ==
  [op |-> "none", pc |-> "idle", args |-> None, session |-> 0, idx |-> 0,
   acc |-> <<>>, seen |-> <<>>, sent |-> <<>>, cancelled |-> FALSE,
   before |-> <<>>, todo |-> <<>>,
   outcome |-> None, exc |-> None, error |-> None, result |-> <<>>]

\* The call_tool handler between two requests.
HandlerIdle == [pc |-> "idle", name |-> None, response |-> <<>>]

HandlerInit == handler = HandlerIdle

\* make_ollama_request has not been called.
OllamaIdle ==
  [pc |-> "idle", max_retries |-> 0, attempt |-> 0, attempts |-> <<>>,
   slept |-> <<>>, outcome |-> None]

\* OllamaMCPServer(): constructed, not yet serving.
ServerCreated ==
  [pc |-> "created", running |-> FALSE, signalled |-> FALSE, idx |-> 0,
   todo |-> <<>>, cleaned |-> <<>>]

ProcInit == parked = GwIdle /\ ollama = OllamaIdle /\ server = ServerCreated

\* MCPGatewayManager(): an empty session group, an empty connection table.
GwInit ==
  /\ connected_servers = <<>>
  /\ sessions = {}
  /\ nextSession = 0
  /\ gw = GwIdle

EngineInit ==
  /\ now = 0
  /\ enable_caching \in BOOLEAN
  /\ instName = [i \in Insts |-> IF i = 1 THEN EngineTool ELSE None]
  /\ cache = [i \in Insts |-> EmptyDict]
  /\ call = [c \in CallIds |-> IdleCall]
  /\ worker = [c \in CallIds |-> "none"]
  /\ lastSuccess = [i \in Insts |-> EmptyDict]
  /\ RegInit
  /\ KeyInit
  /\ GwInit
  /\ HandlerInit
  /\ ProcInit

\* The calls of the sequential engine: one caller, one call at a time.
EngineCalls == {"c1"}

EngineNext ==
  \/ \E c \in EngineCalls, a \in EngineArgs, x \in CtxSet, k \in BodyKinds :
       Execute(c, 1, a, x, k) /\ UNCHANGED <<regVars, keyVars, gwVars, handlerVars, procVars>>
  \/ \E c \in EngineCalls, v \in Values :
       BodyReturn(c, v) /\ UNCHANGED <<regVars, keyVars, gwVars, handlerVars, procVars>>
  \/ \E c \in EngineCalls : BodyRaise(c) /\ UNCHANGED <<regVars, keyVars, gwVars, handlerVars, procVars>>
  \/ \E c \in EngineCalls : Deadline(c) /\ UNCHANGED <<regVars, keyVars, gwVars, handlerVars, procVars>>
  \/ \E c \in EngineCalls : WorkerFinish(c) /\ UNCHANGED <<regVars, keyVars, gwVars, handlerVars, procVars>>
  \/ \E c \in EngineCalls : Consume(c) /\ UNCHANGED <<regVars, keyVars, gwVars, handlerVars, procVars>>
  \/ ClearCache(1) /\ UNCHANGED <<regVars, keyVars, gwVars, handlerVars, procVars>>
  \/ Tick /\ UNCHANGED <<regVars, keyVars, gwVars, handlerVars, procVars>>

SpecEngine == EngineInit /\ [][EngineNext]_vars

(***************************************************************************)
(* Properties of the engine.                                               *)
(***************************************************************************)
\* The step in which call c enters execute.
Enters(c) == call[c].pc = "idle" /\ call'[c].pc # "idle"

\* The step in which the suspended call c gets its ToolResult.
Resumes(c) == call[c].pc \in {"waiting", "draining"} /\ call'[c].pc = "returned"

\* A step of the call failed: validation, the cache key, _execute or the
\* deadline.
StepFailed(r) ==
  \/ ~r.args.isDict
  \/ r.coro \in {"raised", "cancelled"}
  \/ (enable_caching /\ r.args.isDict /\ ~JsonSerializable(r.args.items))

\* C2: execute never raises to its caller: whatever validation, the cache
\* lookup and _execute do (return, raise, exceed the deadline), the call ends
\* with a ToolResult, and with success=false and the error string whenever a
\* step failed.
C2_ExecuteNeverRaises ==
  \A c \in CallIds :
    /\ call[c].pc # "raised"
    /\ call[c].pc = "returned" =>
         /\ call[c].result # NoResult
         /\ StepFailed(call[c]) =>
              /\ ~call[c].result.success
              /\ call[c].result.error = ErrorMessage(call[c].exc, call[c].timeout)
              /\ call[c].result.error # None

\* C2 witness: a call has returned a ToolResult after _execute raised.
C2_Witness ==
  \E c \in CallIds : call[c].pc = "returned" /\ call[c].coro = "raised"

\* C3: every returned ToolResult has execution_time populated; success=true
\* comes without an error, success=false with an error and without data.
C3_ResultShape ==
  \A c \in CallIds :
    call[c].pc = "returned" =>
      /\ call[c].result.execution_time # NoTime
      /\ call[c].result.execution_time >= 0
      /\ call[c].result.success => call[c].result.error = None
      /\ ~call[c].result.success =>
           call[c].result.error # None /\ call[c].result.data = None

\* C3 witness: a successful result that carries data.
C3_Witness ==
  \E c \in CallIds :
    /\ call[c].pc = "returned"
    /\ call[c].result.success
    /\ call[c].result.data # None

\* C4: with caching enabled, an execute with the arguments of an earlier
\* successful execute, entered within the ttl and with no clear_cache in
\* between, returns success=true, cached=true and the earlier data without
\* invoking _execute, whatever value _execute had returned.
C4_RepeatServedFromCache ==
  [][\A c \in CallIds :
       (/\ Enters(c)
        /\ enable_caching
        /\ call'[c].args.isDict
        /\ PairSet(call'[c].args) \in DOMAIN lastSuccess[call'[c].inst]
        /\ now - lastSuccess[call'[c].inst][PairSet(call'[c].args)].at <= CacheTtl)
       => /\ call'[c].pc = "returned"
          /\ call'[c].result.success
          /\ call'[c].result.metadata = "cached"
          /\ call'[c].result.data =
               lastSuccess[call'[c].inst][PairSet(call'[c].args)].data
          /\ ~call'[c].invoked]_vars

\* The cache key of a call's arguments on its tool instance.
KeyOf(r) == GetCacheKey(instName[r.inst], r.args)

\* C5: get_cached_result never returns an entry older than cache_ttl: the
\* read that finds one deletes it and reports absent, so the execute that
\* made the read invokes _execute again, and when that returns its result is
\* stored as a fresh entry; an entry of age at most ttl is returned and left
\* in place.
C5_ExpiredEntryNeverServed ==
  /\ [](\A i \in Insts : \A k \in DOMAIN cache[i] :
          LET g == GetCachedResult(cache[i], k, now) IN
          IF now - cache[i][k].timestamp > CacheTtl
          THEN g.ret = None /\ k \notin DOMAIN g.cache
          ELSE enable_caching => g.ret = cache[i][k].result /\ g.cache = cache[i])
  /\ [][\A c \in CallIds :
          /\ (/\ Enters(c)
              /\ enable_caching
              /\ call'[c].args.isDict
              /\ JsonSerializable(call'[c].args.items)
              /\ KeyOf(call'[c]) \in DOMAIN cache[call'[c].inst])
             => LET i == call'[c].inst
                    k == KeyOf(call'[c])
                IN IF now - cache[i][k].timestamp > CacheTtl
                   THEN /\ call'[c].result.metadata # "cached"
                        /\ call'[c].invoked
                        /\ k \notin DOMAIN cache'[i]
                   ELSE /\ cache'[i] = cache[i]
                        /\ cache[i][k].result # None =>
                             /\ call'[c].result.metadata = "cached"
                             /\ call'[c].result.data = cache[i][k].result
          /\ (Resumes(c) /\ call'[c].result.success /\ call[c].key # None)
             => /\ call[c].key \in DOMAIN cache'[call[c].inst]
                /\ cache'[call[c].inst][call[c].key] =
                     [result |-> call'[c].result.data, timestamp |-> now]]_vars

\* C5 witness: an execute has found an expired entry, deleted it and started
\* _execute again.
C5_Witness ==
  \E c \in CallIds :
    /\ call[c].pc = "waiting"
    /\ call[c].key # None
    /\ call[c].key \notin DOMAIN cache[call[c].inst]
    /\ PairSet(call[c].args) \in DOMAIN lastSuccess[call[c].inst]
    /\ call[c].start - lastSuccess[call[c].inst][PairSet(call[c].args)].at > CacheTtl

\* C7: a call whose deadline expired while _execute was unfinished returns
\* success=false with the timeout error and execution_time populated.
C7_DeadlineYieldsTimeoutResult ==
  \A c \in CallIds :
    (call[c].pc = "returned" /\ call[c].fired) =>
      /\ ~call[c].result.success
      /\ call[c].result.error = ErrorMessage("TimeoutError", call[c].timeout)
      /\ call[c].result.execution_time # NoTime

\* C8: the deadline applied to _execute is context.timeout whenever the
\* context carries one (0 included), and the configured default otherwise.
C8_DeadlineIsContextTimeout ==
  \A c \in CallIds :
    call[c].invoked =>
      call[c].timeout =
        (IF call[c].ctx.has THEN call[c].ctx.val ELSE ExecutionTimeout)

\* C9 as claimed: when the deadline expires the engine does not cancel or
\* interrupt the in-flight _execute.
C9_BodyNotCancelled ==
  \A c \in CallIds :
    call[c].fired => ~call[c].cancelSent /\ call[c].coro # "cancelled"

\* C9 amended: when the deadline expires the engine cancels the _execute
\* coroutine; the timeout result is returned only once the coroutine has
\* ended, and the coroutine takes no step after that; whatever is applied
\* after the timeout result comes from work handed to a worker thread.
C9_CoroutineCancelledWorkerRunsOn ==
  /\ [](\A c \in CallIds :
          /\ call[c].fired => call[c].cancelSent
          /\ (/\ call[c].pc = "returned"
              /\ call[c].result.error =
                   ErrorMessage("TimeoutError", call[c].timeout))
             => call[c].coro = "cancelled"
          /\ call[c].lateEffect =>
               call[c].kind = "executor" /\ worker[c] = "finished")
  /\ [][\A c \in CallIds :
          call[c].pc = "returned" =>
            \/ call'[c].coro = call[c].coro
            \/ call'[c] = IdleCall]_vars

\* C9 witness: the worker thread applied its side effect after the timeout
\* result had been returned.
C9_Witness ==
  \E c \in CallIds :
    /\ call[c].pc = "returned"
    /\ call[c].fired
    /\ ~call[c].result.success
    /\ call[c].lateEffect

(***************************************************************************)
(* get_cache_key as a function of the argument map.                        *)
(***************************************************************************)
\* Most items an argument map of the key check holds.
MaxArgs == 2

KeyVals == {JInt("1"), JStr("1"), JStr("x")}
\* Python dicts of at most MaxArgs items: item sequences with distinct keys.
RECURSIVE ItemSeqs(_)
ItemSeqs(n) ==
  IF n = 0 THEN {<<>>}
  ELSE LET shorter == ItemSeqs(n - 1) IN
       shorter \cup
       {Append(q, Item(k, v)) : q \in {x \in shorter : Len(x) = n - 1},
                                k \in ArgKeys, v \in KeyVals}

DistinctKeys(items) ==
  \A i, j \in 1..Len(items) : items[i].k = items[j].k => i = j

KeyArgMaps == {Dict(q) : q \in {x \in ItemSeqs(MaxArgs) : DistinctKeys(x)}}

KeyInitAll ==
  /\ keyIn \in KeyArgMaps \X KeyArgMaps
  /\ keyOut = <<None, None>>

\* tool.get_cache_key(x) and tool.get_cache_key(y) on one tool.
ComputeKeys ==
  /\ keyOut = <<None, None>>
  /\ keyOut' = <<GetCacheKey(EngineTool, keyIn[1]), GetCacheKey(EngineTool, keyIn[2])>>
  /\ UNCHANGED <<keyIn, engineVars, regVars, gwVars, handlerVars, procVars>>

EngineIdle ==
  /\ now = 0
  /\ enable_caching = TRUE
  /\ instName = [i \in Insts |-> IF i = 1 THEN EngineTool ELSE None]
  /\ cache = [i \in Insts |-> EmptyDict]
  /\ call = [c \in CallIds |-> IdleCall]
  /\ worker = [c \in CallIds |-> "none"]
  /\ lastSuccess = [i \in Insts |-> EmptyDict]

KeySpecInit == EngineIdle /\ RegInit /\ KeyInitAll /\ GwInit /\ HandlerInit /\ ProcInit

KeyNext == ComputeKeys

SpecKey == KeySpecInit /\ [][KeyNext]_vars

RegNames == {"mock_tool", "echo"}
RegCats == {"test", "general"}

\* x in a list; a list without its first x (list.remove).
InSeq(q, x) == \E i \in 1..Len(q) : q[i] = x

RECURSIVE RemoveFirst(_, _)
RemoveFirst(q, x) ==
  IF q = <<>> THEN <<>>
  ELSE IF Head(q) = x THEN Tail(q)
  ELSE <<Head(q)>> \o RemoveFirst(Tail(q), x)

\* is_tool_registered
IsToolRegistered(n) == n \in DOMAIN toolInst

\* get_tool: the instance, 0 for None.
GetTool(n) == IF n \in DOMAIN toolInst THEN toolInst[n] ELSE 0

\* list_tools as names: every registered tool, or the names of the category
\* that are registered, in the category's order.
ListTools(reg, cats, category) ==
  IF category = None THEN reg
  ELSE IF category \in DOMAIN cats
       THEN SelectSeq(cats[category], LAMBDA n : InSeq(reg, n))
       ELSE <<>>

\* A plausible bug: the name is appended to the category on every
\* registration.
RegisterToolAppendAlways(n, cat) ==
  /\ nextInst < MaxInst
  /\ nextInst' = nextInst + 1
  /\ instName' = [instName EXCEPT ![nextInst + 1] = n]
  /\ tools' = IF InSeq(tools, n) THEN tools ELSE Append(tools, n)
  /\ toolInst' = DictPut(toolInst, n, nextInst + 1)
  /\ LET cats == IF cat \in DOMAIN categories THEN categories
                 ELSE DictPut(categories, cat, <<>>)
     IN categories' = [cats EXCEPT ![cat] = Append(@, n)]
  /\ regCall' = [op |-> "register_tool", name |-> n, outcome |-> "returned"]
  /\ UNCHANGED <<now, enable_caching, cache, call, worker, lastSuccess, hc>>

\* register_tool: construct the tool, store it under its name (an existing
\* name is overwritten in place), add the name to the category once.
RegisterTool(n, cat) ==
  /\ nextInst < MaxInst
  /\ nextInst' = nextInst + 1
  /\ instName' = [instName EXCEPT ![nextInst + 1] = n]
  /\ tools' = IF InSeq(tools, n) THEN tools ELSE Append(tools, n)
  /\ toolInst' = DictPut(toolInst, n, nextInst + 1)
  /\ LET cats == IF cat \in DOMAIN categories THEN categories
                 ELSE DictPut(categories, cat, <<>>)
     IN categories' = IF InSeq(cats[cat], n) THEN cats
                      ELSE [cats EXCEPT ![cat] = Append(@, n)]
  /\ regCall' = [op |-> "register_tool", name |-> n, outcome |-> "returned"]
  /\ UNCHANGED <<now, enable_caching, cache, call, worker, lastSuccess, hc>>

\* A plausible bug: the name is removed from the name table only.
UnregisterToolKeepsCategories(n) ==
  /\ IF ~IsToolRegistered(n)
     THEN /\ regCall' = [op |-> "unregister_tool", name |-> n, outcome |-> "False"]
          /\ UNCHANGED <<tools, toolInst, categories>>
     ELSE /\ tools' = RemoveFirst(tools, n)
          /\ toolInst' = DictDel(toolInst, n)
          /\ regCall' = [op |-> "unregister_tool", name |-> n, outcome |-> "True"]
          /\ UNCHANGED categories
  /\ UNCHANGED <<engineVars, nextInst, hc>>

\* unregister_tool
UnregisterTool(n) ==
  /\ IF ~IsToolRegistered(n)
     THEN /\ regCall' = [op |-> "unregister_tool", name |-> n, outcome |-> "False"]
          /\ UNCHANGED <<tools, toolInst, categories>>
     ELSE /\ tools' = RemoveFirst(tools, n)
          /\ toolInst' = DictDel(toolInst, n)
          /\ categories' = [k \in DOMAIN categories |->
                              IF InSeq(categories[k], n)
                              THEN RemoveFirst(categories[k], n)
                              ELSE categories[k]]
          /\ regCall' = [op |-> "unregister_tool", name |-> n, outcome |-> "True"]
  /\ UNCHANGED <<engineVars, nextInst, hc>>

\* A plausible bug: an unknown name is answered with a failed ToolResult
\* instead of the raised ValueError.
ExecuteToolWrapped(c, n, arguments, ctx, kind) ==
  /\ IF GetTool(n) = 0
     THEN /\ call[c].pc = "idle"
          /\ regCall' = [op |-> "execute_tool", name |-> n, outcome |-> "returned"]
          /\ call' = [call EXCEPT ![c] =
               [IdleCall EXCEPT !.pc = "returned", !.start = now,
                  !.result = FailureResult("Tool not found: " \o n, 0)]]
          /\ UNCHANGED <<now, enable_caching, instName, cache, worker, lastSuccess>>
     ELSE /\ Execute(c, GetTool(n), arguments, ctx, kind)
          /\ regCall' = [op |-> "execute_tool", name |-> n, outcome |-> "awaiting"]
  /\ UNCHANGED <<tools, toolInst, categories, nextInst, hc>>

\* execute_tool: raise ValueError for an unknown name, else await the
\* tool's execute (whose steps are the engine's actions).
ExecuteTool(c, n, arguments, ctx, kind) ==
  /\ IF GetTool(n) = 0
     THEN /\ regCall' = [op |-> "execute_tool", name |-> n, outcome |-> "raised",
                         error |-> "Tool not found: " \o n]
          /\ UNCHANGED engineVars
     ELSE /\ Execute(c, GetTool(n), arguments, ctx, kind)
          /\ regCall' = [op |-> "execute_tool", name |-> n, outcome |-> "awaiting"]
  /\ UNCHANGED <<tools, toolInst, categories, nextInst, hc>>

\* What the registry's callers pass to execute_tool.  The clock stands still
\* in the registry's specification, so the one deadline that can expire is
\* the one that is already past when the call is made.
RegArgs == {ArgsAB, NonDict}
RegCtx == {NoCtx, CtxTimeout(0 - 1)}
RegKinds == {"async"}
RegValues == {"r1"}

RegistryInit ==
  /\ now = 0
  /\ enable_caching \in BOOLEAN
  /\ instName = [i \in Insts |-> None]
  /\ cache = [i \in Insts |-> EmptyDict]
  /\ call = [c \in CallIds |-> IdleCall]
  /\ worker = [c \in CallIds |-> "none"]
  /\ lastSuccess = [i \in Insts |-> EmptyDict]
  /\ RegInit
  /\ KeyInit
  /\ GwInit
  /\ HandlerInit
  /\ ProcInit

RegistryNext ==
  \/ \E n \in RegNames, k \in RegCats : RegisterTool(n, k) /\ UNCHANGED <<keyVars, gwVars, handlerVars, procVars>>
  \/ \E n \in RegNames : UnregisterTool(n) /\ UNCHANGED <<keyVars, gwVars, handlerVars, procVars>>
  \/ \E c \in EngineCalls, n \in RegNames, a \in RegArgs, x \in RegCtx, k \in RegKinds :
       ExecuteTool(c, n, a, x, k) /\ UNCHANGED <<keyVars, gwVars, handlerVars, procVars>>
  \/ \E c \in EngineCalls, v \in RegValues :
       BodyReturn(c, v) /\ UNCHANGED <<regVars, keyVars, gwVars, handlerVars, procVars>>
  \/ \E c \in EngineCalls : BodyRaise(c) /\ UNCHANGED <<regVars, keyVars, gwVars, handlerVars, procVars>>
  \/ \E c \in EngineCalls : Consume(c) /\ UNCHANGED <<regVars, keyVars, gwVars, handlerVars, procVars>>

SpecRegistry == RegistryInit /\ [][RegistryNext]_vars

\* C1: execute_tool on an unregistered name raises the not-found error,
\* starts no tool and leaves the registry as it was; on a registered name it
\* enters that tool's execute and the call never ends in a raise, only in a
\* ToolResult.
C1_DispatchRaisesOnlyForUnknown ==
  /\ [](\A c \in CallIds :
          /\ call[c].pc # "raised"
          /\ call[c].pc = "returned" => call[c].result # NoResult)
  /\ [][\A n \in RegNames :
          (/\ regCall'.op = "execute_tool"
           /\ regCall'.name = n
           /\ (regCall' # regCall \/ \E c \in CallIds : Enters(c)))
          => IF ~IsToolRegistered(n)
             THEN /\ regCall'.outcome = "raised"
                  /\ regCall'.error = "Tool not found: " \o n
                  /\ call' = call
                  /\ cache' = cache
                  /\ <<tools, toolInst, categories>>' = <<tools, toolInst, categories>>
             ELSE /\ regCall'.outcome = "awaiting"
                  /\ \E c \in CallIds : Enters(c) /\ call'[c].inst = toolInst[n]
                  /\ <<tools, toolInst, categories>>' = <<tools, toolInst, categories>>]_vars

\* C1 witness: a dispatch to an unregistered name has raised while another
\* tool is registered.
C1_Witness ==
  /\ regCall.op = "execute_tool"
  /\ regCall.outcome = "raised"
  /\ ~IsToolRegistered(regCall.name)
  /\ tools # <<>>

(***************************************************************************)
(* ToolRegistry.health_check_all.                                          *)
(***************************************************************************)
HealthNames == {"t1", "t2", "t3"}
HealthCats == {"general"}

\* What tool.health_check() can do: return True, return False, raise.
HealthOutcomes == {"true", "false", "raised"}

\* A plausible bug: check_tool without its try/except, so that the
\* exception comes back from gather in place of the (name, status) tuple.
CheckToolNoCatch(n, o) ==
  IF o = "raised" THEN [isTuple |-> FALSE, name |-> n, status |-> FALSE]
  ELSE [isTuple |-> TRUE, name |-> n, status |-> (o = "true")]

\* check_tool: (tool_name, result), and (tool_name, False) when the check
\* raised.
CheckTool(n, o) ==
  IF o = "raised" THEN [isTuple |-> TRUE, name |-> n, status |-> FALSE]
  ELSE [isTuple |-> TRUE, name |-> n, status |-> (o = "true")]

\* for result in results: if isinstance(result, tuple): health_results[...]
RECURSIVE CollectResults(_, _)
CollectResults(results, acc) ==
  IF results = <<>> THEN acc
  ELSE CollectResults(Tail(results),
         IF Head(results).isTuple
         THEN DictPut(acc, Head(results).name, Head(results).status)
         ELSE acc)

\* health_check_all up to its await: one check_tool task per registered
\* tool, all handed to asyncio.gather under one wait_for.
HealthCheckStart ==
  /\ hc.pc = "idle"
  /\ hc' = [HcIdle EXCEPT !.pc = "running", !.start = now, !.order = tools,
                          !.tasks = [n \in DOMAIN toolInst |-> "pending"]]
  /\ UNCHANGED <<engineVars, tools, toolInst, categories, nextInst, regCall>>

\* The health check of tool n ends with outcome o.
CheckResolve(n, o) ==
  /\ hc.pc = "running"
  /\ n \in DOMAIN hc.tasks
  /\ hc.tasks[n] = "pending"
  /\ hc' = [hc EXCEPT !.tasks[n] = o]
  /\ UNCHANGED <<engineVars, tools, toolInst, categories, nextInst, regCall>>

\* Every task has ended: gather returns the list, the loop fills
\* health_results, health_check_all returns it.
HealthJoin ==
  /\ hc.pc = "running"
  /\ \A n \in DOMAIN hc.tasks : hc.tasks[n] # "pending"
  /\ hc' = [hc EXCEPT !.pc = "done", !.outcome = "returned",
              !.results = CollectResults(
                 [i \in 1..Len(hc.order) |->
                    CheckTool(hc.order[i], hc.tasks[hc.order[i]])], EmptyDict)]
  /\ UNCHANGED <<engineVars, tools, toolInst, categories, nextInst, regCall>>

\* The global deadline expires with a task still pending: wait_for cancels
\* the gather and raises; the except branch marks every name of _tools that
\* is not in health_results, which is still empty.
HealthTimeout ==
  /\ hc.pc = "running"
  /\ now >= hc.start + HealthDeadline
  /\ \E n \in DOMAIN hc.tasks : hc.tasks[n] = "pending"
  /\ hc' = [hc EXCEPT !.pc = "done", !.outcome = "returned", !.timedOut = TRUE,
              !.tasks = [n \in DOMAIN hc.tasks |->
                           IF hc.tasks[n] = "pending" THEN "cancelled"
                           ELSE hc.tasks[n]],
              !.results = [n \in DOMAIN toolInst |-> FALSE]]
  /\ UNCHANGED <<engineVars, tools, toolInst, categories, nextInst, regCall>>

\* The caller takes the map.
HealthConsume ==
  /\ hc.pc = "done"
  /\ hc' = HcIdle
  /\ UNCHANGED <<engineVars, tools, toolInst, categories, nextInst, regCall>>

\* The registry is filled (register_tool) while health checks may be in
\* flight.
HealthNext ==
  \/ \E n \in HealthNames, k \in HealthCats : RegisterTool(n, k) /\ UNCHANGED <<keyVars, gwVars, handlerVars, procVars>>
  \/ HealthCheckStart /\ UNCHANGED <<keyVars, gwVars, handlerVars, procVars>>
  \/ \E n \in HealthNames, o \in HealthOutcomes : CheckResolve(n, o) /\ UNCHANGED <<keyVars, gwVars, handlerVars, procVars>>
  \/ HealthJoin /\ UNCHANGED <<keyVars, gwVars, handlerVars, procVars>>
  \/ HealthTimeout /\ UNCHANGED <<keyVars, gwVars, handlerVars, procVars>>
  \/ HealthConsume /\ UNCHANGED <<keyVars, gwVars, handlerVars, procVars>>
  \/ Tick /\ UNCHANGED <<regVars, keyVars, gwVars, handlerVars, procVars>>

SpecHealth == RegistryInit /\ [][HealthNext]_vars

\* C10: health_check_all starts the checks of all registered tools at once;
\* when all of them end before the global deadline the returned map has
\* exactly one entry per tool that was registered when the checks started,
\* each tool's entry is its own check's result, a check that raised is
\* false, and health_check_all returns instead of raising.
C10_HealthChecksIsolated ==
  [][/\ (hc.pc # "running" /\ hc'.pc = "running") =>
          /\ DOMAIN hc'.tasks = DOMAIN toolInst
          /\ \A n \in DOMAIN hc'.tasks : hc'.tasks[n] = "pending"
     /\ (hc.pc = "running" /\ hc'.pc = "done" /\ ~hc'.timedOut) =>
          /\ hc'.outcome = "returned"
          /\ DOMAIN hc'.results = DOMAIN hc.tasks
          /\ \A n \in DOMAIN hc.tasks :
               hc'.results[n] = (hc.tasks[n] = "true")]_vars

\* C10 witness: three checks ran together, one raised and two returned
\* true, and the map reports exactly that.
C10_Witness ==
  /\ hc.pc = "done"
  /\ ~hc.timedOut
  /\ \E n, m, k \in DOMAIN hc.results :
       /\ n # m /\ m # k /\ n # k
       /\ hc.tasks[n] = "raised" /\ ~hc.results[n]
       /\ hc.tasks[m] = "true" /\ hc.results[m]
       /\ hc.tasks[k] = "true" /\ hc.results[k]

\* C11: when the global deadline expires before all checks have ended, the
\* returned map has an entry for every tool whose check was started, a
\* check that had not ended is false, and a check that had already ended is
\* reported with its own result.
C11_PartialResultsKept ==
  [][(hc.pc = "running" /\ hc'.pc = "done" /\ hc'.timedOut) =>
       /\ hc'.outcome = "returned"
       /\ DOMAIN hc.tasks \subseteq DOMAIN hc'.results
       /\ \A n \in DOMAIN hc.tasks :
            hc'.results[n] = (hc.tasks[n] = "true")]_vars

(***************************************************************************)
(* The MCP gateway: the connection table of MCPGatewayManager and the      *)
(* bodies (_execute) of the six gateway tools, run one at a time.  The     *)
(* session group and the sessions belong to the external SDK: each awaited *)
(* call of theirs returns ("ok"), raises ("raise"), or is still pending    *)
(* when the engine's deadline cancels the body ("cancel").                 *)
(***************************************************************************)
\* Sessions the session group can open in one run.
MaxSessions == 2

GwNames == {"s1", "s2"}
AwaitOutcomes == {"ok", "raise", "cancel"}

\* What an awaited upstream call raised into the body.
UpstreamExc(o) == IF o = "cancel" THEN "CancelledError" ELSE "Exception"
UpstreamError(o) == IF o = "cancel" THEN "" ELSE "boom"

\* server_name in connected_servers, connected_servers[server_name]
InTable(tbl, n) == \E i \in 1..Len(tbl) : tbl[i].name = n
EntryOf(tbl, n) == tbl[CHOOSE i \in 1..Len(tbl) : tbl[i].name = n]

\* connected_servers[server_name] = entry
TablePut(tbl, e) ==
  IF InTable(tbl, e.name)
  THEN [i \in 1..Len(tbl) |-> IF tbl[i].name = e.name THEN e ELSE tbl[i]]
  ELSE Append(tbl, e)

\* del connected_servers[server_name]
TableDel(tbl, n) == SelectSeq(tbl, LAMBDA e : e.name # n)

\* The arguments of mcp_gateway_connect; None stands for an absent key.
ConnectArgs(n, transport, command, url) ==
  [server_name |-> n, transport_type |-> transport,
   stdio_command |-> command, sse_url |-> url]

GwConnectArgs ==
  {ConnectArgs(n, "stdio", "node", None) : n \in GwNames} \cup
  {ConnectArgs(n, "sse", None, "http://u") : n \in GwNames} \cup
  {ConnectArgs("s1", "stdio", None, None), ConnectArgs("s1", "ws", None, None),
   ConnectArgs("s2", "stdio", "[]", None), ConnectArgs("s2", "sse", None, None)}

\* A call the body made on the session group or on a session.
Sent(f, session, tool, arguments) ==
  [call |-> f, session |-> session, tool |-> tool, arguments |-> arguments]

\* The body ends: it returns a value or an exception leaves it.
GwReturn(g, result) ==
  [g EXCEPT !.pc = "done", !.outcome = "returned", !.result = result]

GwRaise(g, exc, error) ==
  [g EXCEPT !.pc = "done", !.outcome = "raised", !.exc = exc, !.error = error]

\* An await inside the body can be cancelled once, by the engine's deadline.
CanAwait(o) == o = "cancel" => ~gw.cancelled

\* A plausible bug: connect without the check for an existing name.
MCPGatewayConnectNoCheck(a) ==
  /\ gw.pc = "idle"
  /\ gw' = [GwIdle EXCEPT !.op = "connect", !.args = a, !.pc = "opening",
                          !.before = connected_servers,
                          !.sent = <<Sent("connect_to_server", 0, None, None)>>]
  /\ UNCHANGED <<connected_servers, sessions, nextSession>>

\* A plausible bug: connect reads its input with defaults, so that any
\* shape reaches the session group.
MCPGatewayConnectAnyShape(a) ==
  /\ gw.pc = "idle"
  /\ LET g == [GwIdle EXCEPT !.op = "connect", !.args = a,
                             !.before = connected_servers]
     IN gw' =
        IF InTable(connected_servers, a.server_name)
        THEN GwRaise(g, "ValueError",
                     "Server '" \o a.server_name \o "' is already connected")
        ELSE [g EXCEPT !.pc = "opening",
                       !.sent = <<Sent("connect_to_server", 0, None, None)>>]
  /\ UNCHANGED <<connected_servers, sessions, nextSession>>

\* MCPGatewayConnect._execute up to its first await.
MCPGatewayConnect(a) ==
  /\ gw.pc = "idle"
  /\ LET g == [GwIdle EXCEPT !.op = "connect", !.args = a,
                             !.before = connected_servers]
     IN gw' =
        IF InTable(connected_servers, a.server_name)
        THEN GwRaise(g, "ValueError",
                     "Server '" \o a.server_name \o "' is already connected")
        ELSE IF a.transport_type = "stdio" /\ a.stdio_command = None
        THEN GwRaise(g, "KeyError", "'stdio_command'")
        ELSE IF a.transport_type = "stdio" /\ a.stdio_command = "[]"
        THEN GwRaise(g, "IndexError", "list index out of range")
        ELSE IF a.transport_type = "sse" /\ a.sse_url = None
        THEN GwRaise(g, "KeyError", "'sse_url'")
        ELSE IF a.transport_type \notin {"stdio", "sse"}
        THEN GwRaise(g, "UnboundLocalError", "session")
        ELSE [g EXCEPT !.pc = "opening", !.sent = <<Sent("connect_to_server", 0, None, None)>>]
  /\ UNCHANGED <<connected_servers, sessions, nextSession>>

\* await session_group.connect_to_server(...) ends; on return the entry
\* is stored at once.
ConnectOpened(o) ==
  /\ gw.pc = "opening"
  /\ CanAwait(o)
  /\ IF o = "ok"
     THEN /\ nextSession < MaxSessions
          /\ nextSession' = nextSession + 1
          /\ sessions' = sessions \cup {nextSession + 1}
          /\ connected_servers' =
               TablePut(connected_servers,
                        [name |-> gw.args.server_name,
                         session |-> nextSession + 1,
                         transport_type |-> gw.args.transport_type,
                         connection_info |-> gw.args])
          /\ gw' = [gw EXCEPT !.pc = "initializing", !.session = nextSession + 1,
                              !.sent = Append(@, Sent("initialize", nextSession + 1, None, None))]
     ELSE /\ gw' = GwRaise([gw EXCEPT !.cancelled = (o = "cancel")],
                           UpstreamExc(o), UpstreamError(o))
          /\ UNCHANGED <<connected_servers, sessions, nextSession>>

\* await session.initialize() ends.
ConnectInitialized(o) ==
  /\ gw.pc = "initializing"
  /\ CanAwait(o)
  /\ gw' = IF o = "ok"
           THEN [gw EXCEPT !.pc = "listing", !.sent = Append(@, Sent("list_tools", gw.session, None, None))]
           ELSE GwRaise([gw EXCEPT !.cancelled = (o = "cancel")],
                        UpstreamExc(o), UpstreamError(o))
  /\ UNCHANGED <<connected_servers, sessions, nextSession>>

\* await session.list_tools() ends; connect returns its summary.
ConnectListed(o) ==
  /\ gw.pc = "listing"
  /\ CanAwait(o)
  /\ gw' = IF o = "ok"
           THEN GwReturn(gw, <<[server_name |-> gw.args.server_name,
                                transport_type |-> gw.args.transport_type,
                                status |-> "connected"]>>)
           ELSE GwRaise([gw EXCEPT !.cancelled = (o = "cancel")],
                        UpstreamExc(o), UpstreamError(o))
  /\ UNCHANGED <<connected_servers, sessions, nextSession>>

\* The caller takes the outcome of the gateway operation.
GwConsume ==
  /\ gw.pc = "done"
  /\ gw' = GwIdle
  /\ UNCHANGED <<connected_servers, sessions, nextSession>>

\* A plausible bug: the session is closed and the entry is kept.
DisconnectClosedKeepsEntry(o) ==
  /\ gw.pc = "closing"
  /\ CanAwait(o)
  /\ IF o = "ok"
     THEN /\ sessions' = sessions \ {gw.session}
          /\ gw' = GwReturn(gw, <<[server_name |-> gw.args.server_name,
                                   status |-> "disconnected"]>>)
          /\ UNCHANGED <<connected_servers, nextSession>>
     ELSE /\ gw' = GwRaise([gw EXCEPT !.cancelled = (o = "cancel")],
                           UpstreamExc(o), UpstreamError(o))
          /\ UNCHANGED <<connected_servers, sessions, nextSession>>

\* MCPGatewayDisconnect._execute up to its await.
MCPGatewayDisconnect(n) ==
  /\ gw.pc = "idle"
  /\ LET g == [GwIdle EXCEPT !.op = "disconnect", !.args = [server_name |-> n],
                             !.before = connected_servers]
     IN gw' =
        IF ~InTable(connected_servers, n)
        THEN GwRaise(g, "ValueError", "Server '" \o n \o "' is not connected")
        ELSE [g EXCEPT !.pc = "closing",
                       !.session = EntryOf(connected_servers, n).session,
                       !.sent = <<Sent("disconnect_from_server",
                                       EntryOf(connected_servers, n).session,
                                       None, None)>>]
  /\ UNCHANGED <<connected_servers, sessions, nextSession>>

\* await session_group.disconnect_from_server(server_name) ends; on return
\* the entry is deleted (del raises KeyError when it is no longer there).
DisconnectClosed(o) ==
  /\ gw.pc = "closing"
  /\ CanAwait(o)
  /\ IF o = "ok"
     THEN /\ sessions' = sessions \ {gw.session}
          /\ connected_servers' = TableDel(connected_servers, gw.args.server_name)
          /\ gw' = IF InTable(connected_servers, gw.args.server_name)
                   THEN GwReturn(gw, <<[server_name |-> gw.args.server_name,
                                        status |-> "disconnected"]>>)
                   ELSE GwRaise(gw, "KeyError", gw.args.server_name)
          /\ UNCHANGED nextSession
     ELSE /\ gw' = GwRaise([gw EXCEPT !.cancelled = (o = "cancel")],
                           UpstreamExc(o), UpstreamError(o))
          /\ UNCHANGED <<connected_servers, sessions, nextSession>>

\* One query of one server, as it went (history for the claims).
Seen(n, query, o) == [name |-> n, query |-> query, o |-> o]

\* The loop runs over connected_servers itself (list-servers always, the
\* other listings unless the filter names a connected server), not over a
\* dict built for the call.
IteratesTable(g) ==
  IF g.op = "list_servers" THEN TRUE
  ELSE ~(g.args.server_name # None /\ InTable(g.before, g.args.server_name))

\* The loop body is over for the current server: its entry joins the
\* result, and the for statement asks the dict iterator for the next item,
\* which raises when the table's size is no longer what it was when the
\* loop started; else the loop goes to the next server or the body returns.
NextServer(g, entry) ==
  LET acc == Append(g.acc, entry)
  IN IF IteratesTable(g) /\ Len(connected_servers) # Len(g.todo)
     THEN GwRaise([g EXCEPT !.acc = acc], "RuntimeError",
                  "dictionary changed size during iteration")
     ELSE IF g.idx = Len(g.todo)
     THEN GwReturn([g EXCEPT !.acc = acc], acc)
     ELSE [g EXCEPT !.acc = acc, !.idx = g.idx + 1, !.pc = "query"]

\* The loop over servers_to_check starts; no server, no query.
StartLoop(g, todo) ==
  IF todo = <<>> THEN GwReturn(g, <<>>)
  ELSE [g EXCEPT !.todo = todo, !.idx = 1, !.pc = "query"]

\* The entry list-servers appends for a server: connected with its counts
\* (0 for a query that failed), or error with the error text.
ServerInfo(e, status, error, resources, prompts) ==
  [name |-> e.name, transport_type |-> e.transport_type, status |-> status,
   error |-> error, resources_count |-> resources, prompts_count |-> prompts]

\* len(result.x) if the query returned, 0 if the bare except took over.
CountOf(o) == IF o = "ok" THEN "n" ELSE "0"

\* MCPGatewayListServers._execute up to its first await.
MCPGatewayListServers ==
  /\ gw.pc = "idle"
  /\ gw' = StartLoop([GwIdle EXCEPT !.op = "list_servers",
                                    !.before = connected_servers],
                     connected_servers)
  /\ UNCHANGED <<connected_servers, sessions, nextSession>>

\* await session.list_tools() ends: an Exception becomes the server's error
\* entry, a cancellation leaves the body.
ListServersTools(o) ==
  /\ gw.op = "list_servers" /\ gw.pc = "query"
  /\ CanAwait(o)
  /\ LET e == gw.todo[gw.idx]
         g == [gw EXCEPT !.seen = Append(@, Seen(e.name, "list_tools", o)),
                         !.sent = Append(@, Sent("list_tools", e.session, None, None))]
     IN gw' = IF o = "ok" THEN [g EXCEPT !.pc = "resources"]
              ELSE IF o = "raise"
              THEN NextServer(g, ServerInfo(e, "error", UpstreamError(o), None, None))
              ELSE GwRaise([g EXCEPT !.cancelled = TRUE],
                           UpstreamExc(o), UpstreamError(o))
  /\ UNCHANGED <<connected_servers, sessions, nextSession>>

\* await session.list_resources() ends, inside try/except: whatever it
\* raised, the cancellation included, the count is 0 and the body goes on.
ListServersResources(o) ==
  /\ gw.op = "list_servers" /\ gw.pc = "resources"
  /\ CanAwait(o)
  /\ LET e == gw.todo[gw.idx]
     IN gw' = [gw EXCEPT !.seen = Append(@, Seen(e.name, "list_resources", o)),
                         !.sent = Append(@, Sent("list_resources", e.session, None, None)),
                         !.cancelled = @ \/ (o = "cancel"),
                         !.pc = "prompts"]
  /\ UNCHANGED <<connected_servers, sessions, nextSession>>

\* await session.list_prompts() ends, inside try/except as well; the
\* server's connected entry is appended.
ListServersPrompts(o) ==
  /\ gw.op = "list_servers" /\ gw.pc = "prompts"
  /\ CanAwait(o)
  /\ LET e == gw.todo[gw.idx]
         r == gw.seen[Len(gw.seen)].o
         g == [gw EXCEPT !.seen = Append(@, Seen(e.name, "list_prompts", o)),
                         !.sent = Append(@, Sent("list_prompts", e.session, None, None)),
                         !.cancelled = @ \/ (o = "cancel")]
     IN gw' = NextServer(g, ServerInfo(e, "connected", None, CountOf(r), CountOf(o)))
  /\ UNCHANGED <<connected_servers, sessions, nextSession>>

\* servers_to_check: the filtered server when the filter names a connected
\* server, the whole table otherwise.
ServersToCheck(tbl, filter) ==
  IF filter # None /\ InTable(tbl, filter)
  THEN <<EntryOf(tbl, filter)>>
  ELSE tbl

GwFilters == GwNames \cup {None}

\* all_tools[server_name] / all_resources[server_name]
ServerListing(e, status, error, count) ==
  [name |-> e.name, status |-> status, error |-> error, count |-> count]

\* One round of the loop of list-tools and list-resources: the awaited
\* query ends.
QueryEnded(g, query, o) ==
  LET e == g.todo[g.idx]
      h == [g EXCEPT !.seen = Append(@, Seen(e.name, query, o)),
                     !.sent = Append(@, Sent(query, e.session, None, None))]
  IN IF o = "ok" THEN NextServer(h, ServerListing(e, "success", None, "n"))
     ELSE IF o = "raise"
     THEN NextServer(h, ServerListing(e, "error", UpstreamError(o), "0"))
     ELSE GwRaise([h EXCEPT !.cancelled = TRUE], UpstreamExc(o), UpstreamError(o))

\* MCPGatewayListTools._execute up to its first await.
MCPGatewayListTools(filter) ==
  /\ gw.pc = "idle"
  /\ gw' = StartLoop([GwIdle EXCEPT !.op = "list_tools",
                                    !.args = [server_name |-> filter],
                                    !.before = connected_servers],
                     ServersToCheck(connected_servers, filter))
  /\ UNCHANGED <<connected_servers, sessions, nextSession>>

\* await session.list_tools() ends.
ListToolsQueried(o) ==
  /\ gw.op = "list_tools" /\ gw.pc = "query"
  /\ CanAwait(o)
  /\ gw' = QueryEnded(gw, "list_tools", o)
  /\ UNCHANGED <<connected_servers, sessions, nextSession>>

\* MCPGatewayListResources._execute up to its first await.
MCPGatewayListResources(filter) ==
  /\ gw.pc = "idle"
  /\ gw' = StartLoop([GwIdle EXCEPT !.op = "list_resources",
                                    !.args = [server_name |-> filter],
                                    !.before = connected_servers],
                     ServersToCheck(connected_servers, filter))
  /\ UNCHANGED <<connected_servers, sessions, nextSession>>

\* await session.list_resources() ends.
ListResourcesQueried(o) ==
  /\ gw.op = "list_resources" /\ gw.pc = "query"
  /\ CanAwait(o)
  /\ gw' = QueryEnded(gw, "list_resources", o)
  /\ UNCHANGED <<connected_servers, sessions, nextSession>>

\* Content blocks an upstream tool can answer with.
MaxBlocks == 2
TextBlock(t) == [type |-> "text", text |-> t]
ImageBlock == [type |-> "image", text |-> None]
Blocks == {TextBlock("a"), TextBlock("b"), ImageBlock}

RECURSIVE BlockSeqs(_)
BlockSeqs(n) ==
  IF n = 0 THEN {<<>>}
  ELSE BlockSeqs(n - 1) \cup
       {Append(q, b) : q \in {x \in BlockSeqs(n - 1) : Len(x) = n - 1}, b \in Blocks}

\* A plausible bug: the text blocks are returned last first.
ContentDataReversed(content) ==
  IF content = <<>> THEN <<>>
  ELSE [i \in 1..Len(SelectSeq(content, LAMBDA b : b.type = "text")) |->
          SelectSeq(content, LAMBDA b : b.type = "text")
            [Len(SelectSeq(content, LAMBDA b : b.type = "text")) + 1 - i]]

\* content_data: the text blocks of result.content, in order.
ContentData(content) == SelectSeq(content, LAMBDA b : b.type = "text")

GwToolNames == {"echo"}
GwToolArgs == {"{}", "{x: 1}"}

\* A plausible bug: a failed upstream call drops the server's entry.
CallToolEndedDropsEntry(o, content) ==
  /\ gw.op = "call_tool" /\ gw.pc = "calling"
  /\ CanAwait(o)
  /\ gw' = IF o = "ok"
           THEN GwReturn(gw, <<[server_name |-> gw.args.server_name,
                                tool_name |-> gw.args.tool_name,
                                result |-> ContentData(content)]>>)
           ELSE GwRaise([gw EXCEPT !.cancelled = (o = "cancel")],
                        UpstreamExc(o), UpstreamError(o))
  /\ connected_servers' = IF o = "ok" THEN connected_servers
                          ELSE TableDel(connected_servers, gw.args.server_name)
  /\ UNCHANGED <<sessions, nextSession>>

\* MCPGatewayCallTool._execute up to its await.
MCPGatewayCallTool(n, tool, arguments) ==
  /\ gw.pc = "idle"
  /\ LET g == [GwIdle EXCEPT !.op = "call_tool",
                             !.args = [server_name |-> n, tool_name |-> tool,
                                       arguments |-> arguments],
                             !.before = connected_servers]
     IN gw' =
        IF ~InTable(connected_servers, n)
        THEN GwRaise(g, "ValueError", "Server '" \o n \o "' is not connected")
        ELSE [g EXCEPT !.pc = "calling",
                       !.session = EntryOf(connected_servers, n).session,
                       !.sent = <<Sent("call_tool",
                                       EntryOf(connected_servers, n).session,
                                       tool, arguments)>>]
  /\ UNCHANGED <<connected_servers, sessions, nextSession>>

\* await session.call_tool(tool_name, tool_arguments) ends with the
\* upstream content, or raises.
CallToolEnded(o, content) ==
  /\ gw.op = "call_tool" /\ gw.pc = "calling"
  /\ CanAwait(o)
  /\ gw' = IF o = "ok"
           THEN GwReturn([gw EXCEPT !.seen = <<content>>],
                         <<[server_name |-> gw.args.server_name,
                            tool_name |-> gw.args.tool_name,
                            result |-> ContentData(content)]>>)
           ELSE GwRaise([gw EXCEPT !.cancelled = (o = "cancel")],
                        UpstreamExc(o), UpstreamError(o))
  /\ UNCHANGED <<connected_servers, sessions, nextSession>>

GatewayInit ==
  /\ now = 0
  /\ enable_caching = TRUE
  /\ instName = [i \in Insts |-> None]
  /\ cache = [i \in Insts |-> EmptyDict]
  /\ call = [c \in CallIds |-> IdleCall]
  /\ worker = [c \in CallIds |-> "none"]
  /\ lastSuccess = [i \in Insts |-> EmptyDict]
  /\ RegInit
  /\ KeyInit
  /\ GwInit
  /\ HandlerInit
  /\ ProcInit

\* What no gateway operation touches.
gwFrame == <<engineVars, regVars, keyVars, handlerVars, procVars>>

GatewayNext ==
  \/ \E a \in GwConnectArgs : MCPGatewayConnect(a) /\ UNCHANGED gwFrame
  \/ \E o \in AwaitOutcomes : ConnectOpened(o) /\ UNCHANGED gwFrame
  \/ \E o \in AwaitOutcomes : ConnectInitialized(o) /\ UNCHANGED gwFrame
  \/ \E o \in AwaitOutcomes : ConnectListed(o) /\ UNCHANGED gwFrame
  \/ \E n \in GwNames : MCPGatewayDisconnect(n) /\ UNCHANGED gwFrame
  \/ \E o \in AwaitOutcomes : DisconnectClosed(o) /\ UNCHANGED gwFrame
  \/ MCPGatewayListServers /\ UNCHANGED gwFrame
  \/ \E o \in AwaitOutcomes : ListServersTools(o) /\ UNCHANGED gwFrame
  \/ \E o \in AwaitOutcomes : ListServersResources(o) /\ UNCHANGED gwFrame
  \/ \E o \in AwaitOutcomes : ListServersPrompts(o) /\ UNCHANGED gwFrame
  \/ \E f \in GwFilters : MCPGatewayListTools(f) /\ UNCHANGED gwFrame
  \/ \E o \in AwaitOutcomes : ListToolsQueried(o) /\ UNCHANGED gwFrame
  \/ \E f \in GwFilters : MCPGatewayListResources(f) /\ UNCHANGED gwFrame
  \/ \E o \in AwaitOutcomes : ListResourcesQueried(o) /\ UNCHANGED gwFrame
  \/ \E n \in GwNames, t \in GwToolNames, a \in GwToolArgs :
       MCPGatewayCallTool(n, t, a) /\ UNCHANGED gwFrame
  \/ \E o \in AwaitOutcomes, c \in BlockSeqs(MaxBlocks) :
       CallToolEnded(o, c) /\ UNCHANGED gwFrame
  \/ GwConsume /\ UNCHANGED gwFrame

SpecGateway == GatewayInit /\ [][GatewayNext]_vars

\* A gateway operation is entered in this step.
GwEnters(op) == gw.pc = "idle" /\ gw'.op = op /\ gw'.pc # "idle"

\* A gateway operation ends in this step.
GwEnds(op) == gw'.op = op /\ gw.pc # "done" /\ gw'.pc = "done"

\* C12: a connect for a server name that is already in the connection
\* table fails with the 'already connected' error, asks the session group
\* for nothing, opens no session and leaves the table, the existing entry
\* included, as it was.
C12_ConnectRejectsExistingName ==
  [][(GwEnters("connect") /\ InTable(connected_servers, gw'.args.server_name)) =>
       /\ gw'.pc = "done" /\ gw'.outcome = "raised"
       /\ gw'.exc = "ValueError"
       /\ gw'.error = "Server '" \o gw'.args.server_name \o "' is already connected"
       /\ gw'.sent = <<>>
       /\ sessions' = sessions /\ nextSession' = nextSession
       /\ connected_servers' = connected_servers]_vars

\* C12 witness: a connect with other parameters for a connected name was
\* rejected, and the entry still has the parameters of the first connect.
C12_Witness ==
  /\ gw.op = "connect" /\ gw.pc = "done"
  /\ gw.error = "Server 's1' is already connected"
  /\ InTable(connected_servers, "s1")
  /\ EntryOf(connected_servers, "s1").transport_type = "stdio"
  /\ gw.args.transport_type = "sse"
  /\ EntryOf(connected_servers, "s1").session \in sessions

\* C13: a connect for a name that was absent either returns with the
\* server recorded, its session initialized, or fails with the name absent
\* from the connection table: a connect whose transport open, session
\* initialize or first tool listing failed or timed out leaves no entry.
C13_ConnectIsAtomic ==
  [][(GwEnds("connect") /\ ~InTable(gw'.before, gw'.args.server_name)) =>
       IF gw'.outcome = "returned"
       THEN /\ InTable(connected_servers', gw'.args.server_name)
            /\ EntryOf(connected_servers', gw'.args.server_name).session = gw'.session
            /\ gw'.session \in sessions'
       ELSE ~InTable(connected_servers', gw'.args.server_name)]_vars

\* A disconnect for a name that is not in the table fails with the 'not
\* connected' error, calls nothing and changes nothing.
DisconnectUnknownFails ==
  (GwEnters("disconnect") /\ ~InTable(connected_servers, gw'.args.server_name)) =>
     /\ gw'.pc = "done" /\ gw'.outcome = "raised"
     /\ gw'.exc = "ValueError"
     /\ gw'.error = "Server '" \o gw'.args.server_name \o "' is not connected"
     /\ gw'.sent = <<>>
     /\ connected_servers' = connected_servers
     /\ sessions' = sessions

\* C14 as stated: a disconnect for an absent name fails and changes
\* nothing; every disconnect for a present name closes the server's
\* session and removes exactly that entry.
C14_DisconnectAlwaysRemoves ==
  [][/\ DisconnectUnknownFails
     /\ (GwEnds("disconnect") /\ InTable(gw'.before, gw'.args.server_name)) =>
          /\ gw'.session \notin sessions'
          /\ connected_servers' = TableDel(gw'.before, gw'.args.server_name)]_vars

\* C14: a disconnect for an absent name fails and changes nothing; a
\* disconnect for a present name whose upstream close returned has closed
\* that session and removed exactly that entry, so the name is absent
\* afterwards; when the close raised or was cancelled by the deadline the
\* disconnect fails and the entry and the session stay as they were.
C14_DisconnectRemovesWhenClosed ==
  [][/\ DisconnectUnknownFails
     /\ (GwEnds("disconnect") /\ InTable(gw'.before, gw'.args.server_name)) =>
          IF gw'.outcome = "returned"
          THEN /\ gw'.session \notin sessions'
               /\ sessions' = sessions \ {gw'.session}
               /\ connected_servers' = TableDel(gw'.before, gw'.args.server_name)
               /\ ~InTable(connected_servers', gw'.args.server_name)
          ELSE /\ gw'.exc \in {"Exception", "CancelledError"}
               /\ connected_servers' = gw'.before
               /\ sessions' = sessions]_vars

\* C14 witness: with two servers connected, the disconnect of one returned
\* and only the other is left.
C14_Witness ==
  /\ gw.op = "disconnect" /\ gw.pc = "done" /\ gw.outcome = "returned"
  /\ Len(gw.before) = 2
  /\ Len(connected_servers) = 1
  /\ connected_servers[1].name # gw.args.server_name
  /\ connected_servers[1].session \in sessions

\* A listing over the whole connection table returns in this step.
ListingReturns ==
  /\ \/ GwEnds("list_servers")
     \/ (GwEnds("list_tools") \/ GwEnds("list_resources")) /\ gw'.args.server_name = None
  /\ gw'.outcome = "returned"

\* An upstream query of server n raised during the listing g.
QueryRaised(g, n) ==
  \E k \in 1..Len(g.seen) : g.seen[k].name = n /\ g.seen[k].o = "raise"

\* C15: list-servers and the unfiltered list-tools and list-resources
\* return exactly one entry per server of the connection table; a server
\* one of whose upstream queries raised has status error with the error
\* text, and every other server has its own, successful entry.
C15_ListingIsolatesFailures ==
  [][ListingReturns =>
       /\ Len(gw'.result) = Len(connected_servers)
       /\ \A i \in 1..Len(connected_servers) :
            /\ gw'.result[i].name = connected_servers[i].name
            /\ IF QueryRaised(gw', connected_servers[i].name)
               THEN gw'.result[i].status = "error" /\ gw'.result[i].error = "boom"
               ELSE gw'.result[i].status \in {"connected", "success"}]_vars

\* C16: call-tool for a server name that is not in the connection table
\* fails and forwards nothing; for a connected server it forwards exactly
\* one call, with the tool name and the arguments, to that server's
\* session, and when the upstream answers it returns the text blocks of the
\* answer as one flat list in their original order.
C16_CallToolForwardsOnce ==
  [][/\ (GwEnters("call_tool") /\ ~InTable(connected_servers, gw'.args.server_name)) =>
          /\ gw'.pc = "done" /\ gw'.outcome = "raised"
          /\ gw'.error = "Server '" \o gw'.args.server_name \o "' is not connected"
          /\ gw'.sent = <<>>
     /\ (GwEnds("call_tool") /\ InTable(gw'.before, gw'.args.server_name)) =>
          /\ gw'.sent = <<Sent("call_tool",
                               EntryOf(gw'.before, gw'.args.server_name).session,
                               gw'.args.tool_name, gw'.args.arguments)>>
          /\ gw'.outcome = "returned" =>
               LET up == gw'.seen[1]
                   out == gw'.result[1].result
               IN /\ \A i \in 1..Len(out) : out[i].type = "text"
                  /\ Len(out) = Cardinality({k \in 1..Len(up) : up[k].type = "text"})
                  /\ \E f \in [1..Len(out) -> 1..Len(up)] :
                       /\ \A i \in 1..Len(out) : up[f[i]] = out[i]
                       /\ \A i, j \in 1..Len(out) : i < j => f[i] < f[j]]_vars

\* C16 witness: the upstream answered text "b" then text "a", and the call
\* returned them in that order.
C16_Witness ==
  /\ gw.op = "call_tool" /\ gw.pc = "done" /\ gw.outcome = "returned"
  /\ gw.seen = <<(<<TextBlock("b"), TextBlock("a")>>)>>
  /\ gw.result[1].result = <<TextBlock("b"), TextBlock("a")>>
  /\ Len(gw.sent) = 1

GwReadOps == {"call_tool", "list_servers", "list_tools", "list_resources"}

\* C17: the connection table changes only in a connect, by the named entry
\* being added, and in a disconnect, by the named entry being removed;
\* call-tool and the three listings leave the table and the set of open
\* sessions as they were in every step, whether they return or fail.
C17_TableChangesOnlyByConnectDisconnect ==
  [][/\ connected_servers' # connected_servers =>
          \/ /\ gw.op = "connect"
             /\ ~InTable(connected_servers, gw.args.server_name)
             /\ InTable(connected_servers', gw.args.server_name)
             /\ TableDel(connected_servers', gw.args.server_name) = connected_servers
          \/ /\ gw.op = "disconnect"
             /\ InTable(connected_servers, gw.args.server_name)
             /\ connected_servers' = TableDel(connected_servers, gw.args.server_name)
     /\ (gw.op \in GwReadOps \/ gw'.op \in GwReadOps) =>
          /\ connected_servers' = connected_servers
          /\ sessions' = sessions
     /\ GwEnds("call_tool") \/ GwEnds("list_servers") \/ GwEnds("list_tools")
          \/ GwEnds("list_resources") => connected_servers' = gw'.before]_vars

\* C17 witness: the upstream call of call-tool raised, and the server is
\* still recorded as connected, with the entry it had.
C17_Witness ==
  /\ gw.op = "call_tool" /\ gw.pc = "done" /\ gw.outcome = "raised"
  /\ gw.exc = "Exception"
  /\ InTable(connected_servers, gw.args.server_name)
  /\ connected_servers = gw.before
  /\ EntryOf(connected_servers, gw.args.server_name).session \in sessions

(***************************************************************************)
(* Registration and categories (SpecRegistry).                             *)
(***************************************************************************)
\* The number of times x occurs in the list q.
Count(q, x) == Cardinality({i \in 1..Len(q) : q[i] = x})

\* C18: after register_tool(T, c) the name is registered with the new
\* instance, c is a category and holds the name exactly once, also when the
\* name was registered under c before; list_tools(c) never holds a name
\* twice.
C18_RegisterIsIdempotentPerCategory ==
  /\ [](\A c \in DOMAIN categories, n \in RegNames :
          Count(ListTools(tools, categories, c), n) <= 1)
  /\ [][\A n \in RegNames, c \in RegCats :
          RegisterTool(n, c) =>
            /\ regCall'.outcome = "returned"
            /\ n \in DOMAIN toolInst' /\ toolInst'[n] = nextInst'
            /\ InSeq(tools', n)
            /\ c \in DOMAIN categories'
            /\ Count(categories'[c], n) = 1
            /\ Count(ListTools(tools', categories', c), n) = 1]_vars

\* C18 witness: mock_tool was registered twice under "test": the second
\* instance is the stored one and the category holds the name once.
C18_Witness ==
  /\ regCall.op = "register_tool" /\ regCall.name = "mock_tool"
  /\ nextInst = 2
  /\ instName[1] = "mock_tool" /\ instName[2] = "mock_tool"
  /\ toolInst["mock_tool"] = 2
  /\ DOMAIN categories = {"test"}
  /\ categories["test"] = <<"mock_tool">>

\* The categories whose list holds the name n.
CategoriesOf(n) == {c \in DOMAIN categories : InSeq(categories[c], n)}

\* C19: whatever register_tool and unregister_tool calls were made, every
\* registered name is in the list of exactly one category.
C19_ExactlyOneCategory ==
  \A n \in DOMAIN toolInst : Cardinality(CategoriesOf(n)) = 1

\* C20: unregister_tool(name) returns True exactly when the name was
\* registered; afterwards the name is not registered and is in no category
\* list, and nothing else changed; on an unregistered name it returns False
\* and the name table and the categories are as before.
C20_UnregisterRemovesEverywhere ==
  [][\A n \in RegNames :
       UnregisterTool(n) =>
         /\ regCall'.op = "unregister_tool"
         /\ (regCall'.outcome = "True") <=> IsToolRegistered(n)
         /\ regCall'.outcome \in {"True", "False"}
         /\ n \notin DOMAIN toolInst' /\ ~InSeq(tools', n)
         /\ \A c \in DOMAIN categories' : ~InSeq(categories'[c], n)
         /\ DOMAIN categories' = DOMAIN categories
         /\ \A m \in RegNames \ {n} :
              /\ (m \in DOMAIN toolInst') <=> (m \in DOMAIN toolInst)
              /\ m \in DOMAIN toolInst => toolInst'[m] = toolInst[m]
              /\ \A c \in DOMAIN categories :
                   InSeq(categories'[c], m) <=> InSeq(categories[c], m)
         /\ ~IsToolRegistered(n) =>
              /\ toolInst' = toolInst /\ tools' = tools
              /\ categories' = categories]_vars

\* C20 witness: a name that was in two category lists was unregistered,
\* the call returned True, and the other tool is still in its category.
C20_Witness ==
  /\ regCall.op = "unregister_tool" /\ regCall.outcome = "True"
  /\ regCall.name = "mock_tool"
  /\ "mock_tool" \notin DOMAIN toolInst
  /\ DOMAIN categories = {"test", "general"}
  /\ categories["test"] = <<"echo">>
  /\ categories["general"] = <<>>
  /\ "echo" \in DOMAIN toolInst

(***************************************************************************)
(* The registry's lookups.                                                 *)
(***************************************************************************)
\* A plausible bug: validate_tool_exists without its check.
ValidateToolExistsLax(n) == "returned"

\* validate_tool_exists: raises ValueError for a name that is not
\* registered.
ValidateToolExists(n) == IF ~IsToolRegistered(n) THEN "raised" ELSE "returned"

\* Names the lookups are asked about, registered or never heard of.
LookupNames == RegNames \cup {"ghost"}
LookupCats == RegCats \cup {"ghost"}

DiscoveryGroups ==
  <<[category |-> "ollama",
     names |-> <<"ollama_list_models", "ollama_chat", "ollama_generate",
                 "ollama_pull_model", "ollama_manage_agents">>],
    [category |-> "infrastructure",
     names |-> <<"docker_list_containers", "docker_run_container",
                 "k8s_list_pods">>],
    [category |-> "git",
     names |-> <<"git_status", "git_clone", "git_commit", "git_branch">>],
    [category |-> "github",
     names |-> <<"github_get_file_contents", "github_get_commit",
                 "github_list_commits", "github_list_branches",
                 "github_search_repositories", "github_get_issue",
                 "github_list_pull_requests">>],
    [category |-> "browser",
     names |-> <<"playwright_navigate", "playwright_take_screenshot",
                 "playwright_click", "playwright_type", "playwright_wait_for",
                 "playwright_get_text", "playwright_fill_form",
                 "playwright_evaluate", "playwright_get_page_info">>]>>

\* The names of the tool classes get_gateway_tools returns.
GatewayToolNames ==
  {"mcp_gateway_connect", "mcp_gateway_disconnect", "mcp_gateway_list_servers",
   "mcp_gateway_list_tools", "mcp_gateway_call_tool", "mcp_gateway_list_resources"}

\* The registry tables as one value, and register_tool on that value.
RegistryState == [tools |-> tools, toolInst |-> toolInst,
                  categories |-> categories, nextInst |-> nextInst,
                  instName |-> <<>>]

RegisterInto(st, n, cat) ==
  LET cats == IF cat \in DOMAIN st.categories THEN st.categories
              ELSE DictPut(st.categories, cat, <<>>)
  IN [tools |-> IF InSeq(st.tools, n) THEN st.tools ELSE Append(st.tools, n),
      toolInst |-> DictPut(st.toolInst, n, st.nextInst + 1),
      categories |-> IF InSeq(cats[cat], n) THEN cats
                     ELSE [cats EXCEPT ![cat] = Append(@, n)],
      nextInst |-> st.nextInst + 1,
      instName |-> Append(st.instName, n)]

\* The registrations of one import group, one after the other.
RECURSIVE RegisterGroup(_, _, _)
RegisterGroup(st, names, cat) ==
  IF names = <<>> THEN st
  ELSE LET next == RegisterInto(st, Head(names), cat)
       IN IF InSeq(next.tools, Head(names))  \* the call has returned
          THEN RegisterGroup(next, Tail(names), cat)
          ELSE next

\* The groups in order; a group whose import raised ImportError is skipped.
RECURSIVE DiscoverFrom(_, _, _)
DiscoverFrom(st, g, imported) ==
  IF g > Len(DiscoveryGroups) THEN st
  ELSE DiscoverFrom(IF g \in imported
                    THEN RegisterGroup(st, DiscoveryGroups[g].names,
                                       DiscoveryGroups[g].category)
                    ELSE st,
                    g + 1, imported)

\* auto_discover_tools at server startup, on the empty registry; every
\* registered tool is a fresh instance with its own empty cache.
AutoDiscoverTools(imported) ==
  /\ regCall.op = "none"
  /\ LET st == DiscoverFrom(RegistryState, 1, imported)
     IN /\ tools' = st.tools
        /\ toolInst' = st.toolInst
        /\ categories' = st.categories
        /\ nextInst' = st.nextInst
        /\ instName' = st.instName
        /\ cache' = [i \in 1..st.nextInst |-> EmptyDict]
        /\ lastSuccess' = [i \in 1..st.nextInst |-> EmptyDict]
  /\ regCall' = [op |-> "auto_discover_tools", name |-> None,
                 outcome |-> "returned"]
  /\ UNCHANGED <<now, enable_caching, call, worker, hc>>

\* The tools asked for after startup: the gateway tools and a local one.
DispatchNames == GatewayToolNames \cup {"git_status"}

DiscoveryNext ==
  \/ \E imported \in SUBSET (1..Len(DiscoveryGroups)) :
       AutoDiscoverTools(imported) /\ UNCHANGED <<keyVars, gwVars, handlerVars, procVars>>
  \/ \E c \in EngineCalls, n \in DispatchNames, a \in RegArgs, x \in RegCtx, k \in RegKinds :
       regCall.op # "none" /\ ExecuteTool(c, n, a, x, k) /\ UNCHANGED <<keyVars, gwVars, handlerVars, procVars>>
  \/ \E c \in EngineCalls, v \in RegValues :
       BodyReturn(c, v) /\ UNCHANGED <<regVars, keyVars, gwVars, handlerVars, procVars>>
  \/ \E c \in EngineCalls : BodyRaise(c) /\ UNCHANGED <<regVars, keyVars, gwVars, handlerVars, procVars>>
  \/ \E c \in EngineCalls : Consume(c) /\ UNCHANGED <<regVars, keyVars, gwVars, handlerVars, procVars>>

SpecDiscovery == RegistryInit /\ [][DiscoveryNext]_vars

\* C22: once discovery has run, the six gateway tools are registered, and
\* execute_tool on one of their names enters the tool instead of raising
\* the not-found error.
C22_GatewayToolsDiscovered ==
  regCall.op # "none" =>
    /\ \A g \in GatewayToolNames : IsToolRegistered(g)
    /\ (regCall.op = "execute_tool" /\ regCall.name \in GatewayToolNames)
         => regCall.outcome # "raised"

(***************************************************************************)
(* The gateway connect tool's input shape.                                 *)
(***************************************************************************)
\* stdio without a command or with an empty one, sse without a url, or a
\* transport that is neither.
InvalidShape(a) ==
  \/ a.transport_type = "stdio" /\ a.stdio_command \in {None, "[]"}
  \/ a.transport_type = "sse" /\ a.sse_url = None
  \/ a.transport_type \notin {"stdio", "sse"}

\* C23: a connect whose input shape is invalid fails with an exception the
\* engine turns into an error result, asks the session group for nothing,
\* and leaves the connection table and the open sessions as they were.
C23_InvalidShapeFails ==
  [][(GwEnters("connect") /\ InvalidShape(gw'.args)) =>
       /\ gw'.pc = "done" /\ gw'.outcome = "raised"
       /\ Caught(gw'.exc) \/ gw'.exc \in {"KeyError", "IndexError", "UnboundLocalError"}
       /\ gw'.sent = <<>>
       /\ connected_servers' = connected_servers
       /\ sessions' = sessions /\ nextSession' = nextSession]_vars

\* C23 witness: with a server connected, a connect for another name with a
\* transport type that is neither stdio nor sse failed on the unbound
\* session, and the table is as it was.
C23_Witness ==
  /\ gw.op = "connect" /\ gw.pc = "done" /\ gw.outcome = "raised"
  /\ gw.exc = "UnboundLocalError"
  /\ gw.args.transport_type = "ws"
  /\ Len(connected_servers) = 1 /\ connected_servers = gw.before
  /\ connected_servers[1].name # gw.args.server_name

(***************************************************************************)
(* The protocol-level call_tool handler of the MCP server.                 *)
(***************************************************************************)
\* types.TextContent(type="text", text=t)
TextContent(t) == [type |-> "text", text |-> t]

\* ', '.join(names)
RECURSIVE JoinNames(_)
JoinNames(names) ==
  IF names = <<>> THEN ""
  ELSE Head(names) \o (IF Len(names) > 1 THEN ", " ELSE "") \o JoinNames(Tail(names))

\* str(e) of the ValueError validate_tool_exists raises.
NotFoundMessage(n) ==
  "Tool '" \o n \o "' not found. Available tools: " \o JoinNames(tools)

\* _format_tool_result: a result without data has a fixed text, a string is
\* its own text.
FormatToolResult(result) ==
  IF result.data = None THEN "Tool executed successfully (no data returned)"
  ELSE result.data

\* The arguments of a request: absent (None) or a value.
NoArguments == [given |-> FALSE, value |-> NonDict]
Arguments(a) == [given |-> TRUE, value |-> a]

\* arguments or {}
ArgumentsOrEmpty(a) == IF a.given THEN a.value ELSE Dict(<<>>)

\* str(e) of an exception leaving the try block of the handler.
DispatchError == "dispatch failure"

\* A plausible bug: the handler has no except clause around the dispatch.
CallToolRaisedUncaught(c) ==
  /\ handler.pc = "awaiting"
  /\ call[c].pc = "waiting"
  /\ handler' = [handler EXCEPT !.pc = "raised"]
  /\ call' = [call EXCEPT ![c] = IdleCall]
  /\ worker' = [worker EXCEPT ![c] = "none"]
  /\ UNCHANGED <<now, enable_caching, instName, cache, lastSuccess>>

\* call_tool, up to the await of execute_tool: an unknown name is answered
\* at once, a known one is dispatched with a fresh execution context.
CallTool(c, name, arguments, kind) ==
  /\ handler.pc = "idle"
  /\ call[c].pc = "idle"
  /\ IF ValidateToolExists(name) = "raised"
     THEN /\ handler' = [pc |-> "returned", name |-> name,
                         response |-> <<TextContent("Error: " \o NotFoundMessage(name))>>]
          /\ UNCHANGED <<engineVars, regVars>>
     ELSE /\ ExecuteTool(c, name, ArgumentsOrEmpty(arguments), NoCtx, kind)
          /\ handler' = [pc |-> "awaiting", name |-> name, response |-> <<>>]

\* call_tool after execute_tool returned its ToolResult.
CallToolReturned(c) ==
  /\ handler.pc = "awaiting"
  /\ call[c].pc = "returned"
  /\ handler' = [handler EXCEPT !.pc = "returned", !.response =
       <<TextContent(IF call[c].result.success
                     THEN FormatToolResult(call[c].result)
                     ELSE "Tool execution failed: " \o call[c].result.error)>>]
  /\ Consume(c)

\* except Exception: an exception left execute_tool while the handler was
\* awaiting it.  BaseTool.execute turns every Exception of _execute into
\* a result, so this is a failure of what surrounds it.
CallToolRaised(c) ==
  /\ handler.pc = "awaiting"
  /\ call[c].pc = "waiting"
  /\ handler' = [handler EXCEPT !.pc = "returned", !.response =
       <<TextContent("Tool execution exception: " \o DispatchError)>>]
  /\ call' = [call EXCEPT ![c] = IdleCall]
  /\ worker' = [worker EXCEPT ![c] = "none"]
  /\ UNCHANGED <<now, enable_caching, instName, cache, lastSuccess>>

\* The protocol layer sends the response; the handler takes the next request.
CallToolSent ==
  /\ handler.pc = "returned"
  /\ handler' = HandlerIdle

\* The server registers each tool once, while it initialises.
HandlerCat == "general"
HandlerNames == RegNames \cup {"ghost"}
HandlerArgs == {NoArguments, Arguments(ArgsAB), Arguments(NonDict)}
HandlerValues == {"r1", None}

HandlerNext ==
  \/ \E n \in RegNames :
       /\ handler.pc = "idle" /\ ~IsToolRegistered(n)
       /\ RegisterTool(n, HandlerCat) /\ UNCHANGED <<keyVars, gwVars, handlerVars, procVars>>
  \/ \E c \in EngineCalls, n \in HandlerNames, a \in HandlerArgs, k \in RegKinds :
       CallTool(c, n, a, k) /\ UNCHANGED <<keyVars, gwVars, procVars>>
  \/ \E c \in EngineCalls, v \in HandlerValues :
       BodyReturn(c, v) /\ UNCHANGED <<regVars, keyVars, gwVars, handlerVars, procVars>>
  \/ \E c \in EngineCalls : BodyRaise(c) /\ UNCHANGED <<regVars, keyVars, gwVars, handlerVars, procVars>>
  \/ \E c \in EngineCalls : CallToolReturned(c) /\ UNCHANGED <<regVars, keyVars, gwVars, procVars>>
  \/ \E c \in EngineCalls : CallToolRaised(c) /\ UNCHANGED <<regVars, keyVars, gwVars, procVars>>
  \/ CallToolSent /\ UNCHANGED <<engineVars, regVars, keyVars, gwVars, procVars>>

SpecHandler == RegistryInit /\ [][HandlerNext]_vars

\* The texts a failed ToolResult carries, and the texts a handler puts in
\* front of an error.
ResultErrors == {ErrorMessage(e, ExecutionTimeout) : e \in {"ValueError", "TypeError", "TimeoutError", "Exception"}}
ErrorTexts ==
  {"Error: " \o NotFoundMessage(n) : n \in HandlerNames}
    \cup {"Tool execution failed: " \o e : e \in ResultErrors}
    \cup {"Tool execution exception: " \o DispatchError}

\* C24: the call_tool handler never raises.  Whenever it returns, it returns
\* exactly one text block: for an unknown name, for a failed ToolResult and
\* for an exception leaving the dispatch the text is an error message with
\* its prefix, and for a successful ToolResult (cached or not) the text is
\* the formatted data.
C24_HandlerNeverRaises ==
  /\ [](handler.pc # "raised")
  /\ [][(handler.pc # "returned" /\ handler'.pc = "returned") =>
          /\ Len(handler'.response) = 1
          /\ handler'.response[1].type = "text"
          /\ LET text == handler'.response[1].text
                 r == call["c1"]
             IN /\ handler.pc = "idle" =>
                     /\ ~IsToolRegistered(handler'.name)
                     /\ text = "Error: " \o NotFoundMessage(handler'.name)
                /\ (handler.pc = "awaiting" /\ r.pc = "returned" /\ ~r.result.success) =>
                     /\ text = "Tool execution failed: " \o r.result.error
                     /\ text \in ErrorTexts
                /\ (handler.pc = "awaiting" /\ r.pc = "returned" /\ r.result.success) =>
                     /\ text = FormatToolResult(r.result)
                     /\ text \notin ErrorTexts
                /\ (handler.pc = "awaiting" /\ r.pc # "returned") =>
                     text = "Tool execution exception: " \o DispatchError]_vars

\* C24 witness: the dispatch of a registered tool raised while the handler
\* awaited it, and the handler returned one block with the exception text.
C24_Witness ==
  /\ handler.pc = "returned"
  /\ IsToolRegistered(handler.name)
  /\ Len(handler.response) = 1
  /\ handler.response[1].text = "Tool execution exception: " \o DispatchError

(***************************************************************************)
(* The records of an execute call.                                         *)
(***************************************************************************)
\* The execute call c returns in this step.
Returns(c) == call[c].pc # "returned" /\ call'[c].pc = "returned"

\* C25: an execute call that fails (validation, key computation, timeout or
\* an exception of _execute) has written exactly one audit record with
\* success=false and the error string, and exactly one performance record
\* with success=false, when it returns; a call whose _execute returned
\* normally has written exactly one of each with success=true; no record is
\* written before the call returns, and the records carry the success flag
\* of the returned ToolResult.
C25_OneAuditOnePerfRecord ==
  /\ [](\A c \in EngineCalls :
          call[c].pc # "returned" => call[c].audit = <<>> /\ call[c].perf = <<>>)
  /\ [][\A c \in EngineCalls : Returns(c) =>
          LET r == call'[c] IN
          /\ ~r.result.success =>
               /\ r.audit = <<[success |-> FALSE, error |-> r.result.error]>>
               /\ r.result.error # None
               /\ r.perf = <<[success |-> FALSE]>>
          /\ (r.result.success /\ r.coro = "returned") =>
               /\ r.audit = <<[success |-> TRUE, error |-> None]>>
               /\ r.perf = <<[success |-> TRUE]>>
          /\ \A k \in 1..Len(r.audit) : r.audit[k].success = r.result.success
          /\ \A k \in 1..Len(r.perf) : r.perf[k].success = r.result.success]_vars

\* C25 witness: a call whose _execute was cancelled by the deadline has
\* returned the timeout failure with one audit and one performance record.
C25_Witness ==
  \E c \in EngineCalls :
    /\ call[c].pc = "returned" /\ call[c].exc = "TimeoutError"
    /\ call[c].invoked /\ call[c].timeout > 0
    /\ ~call[c].result.success
    /\ Len(call[c].audit) = 1 /\ Len(call[c].perf) = 1

(***************************************************************************)
(* Bulk cache invalidation.                                                *)
(***************************************************************************)
\* The instances the registry holds: self._tools.values().
RegisteredInsts == {toolInst[n] : n \in DOMAIN toolInst}

\* A plausible bug: the loop stops after the first registered tool.
ClearAllCachesFirstOnly ==
  /\ cache' = [i \in Insts |->
       IF tools # <<>> /\ i = toolInst[Head(tools)] THEN EmptyDict ELSE cache[i]]
  /\ lastSuccess' = [i \in Insts |->
       IF tools # <<>> /\ i = toolInst[Head(tools)] THEN EmptyDict ELSE lastSuccess[i]]
  /\ regCall' = [op |-> "clear_all_caches", name |-> None, outcome |-> "returned",
                 busy |-> \E c \in EngineCalls : call[c].pc # "idle",
                 dropped |-> {i \in RegisteredInsts : cache[i] # EmptyDict}]
  /\ UNCHANGED <<now, enable_caching, instName, call, worker>>
  /\ UNCHANGED <<tools, toolInst, categories, nextInst, hc>>

\* clear_all_caches: clear_cache on every registered tool.  The outcome
\* records whether an execute was awaiting its body at the time, and which
\* instances had entries to drop.
ClearAllCaches ==
  /\ cache' = [i \in Insts |-> IF i \in RegisteredInsts THEN EmptyDict ELSE cache[i]]
  /\ lastSuccess' = [i \in Insts |->
       IF i \in RegisteredInsts THEN EmptyDict ELSE lastSuccess[i]]
  /\ regCall' = [op |-> "clear_all_caches", name |-> None, outcome |-> "returned",
                 busy |-> \E c \in EngineCalls : call[c].pc # "idle",
                 dropped |-> {i \in RegisteredInsts : cache[i] # EmptyDict}]
  /\ UNCHANGED <<now, enable_caching, instName, call, worker>>
  /\ UNCHANGED <<tools, toolInst, categories, nextInst, hc>>

\* The category the tools of this specification are registered in.
CachesCat == "general"

CachesNext ==
  \/ \E n \in RegNames :
       /\ ~IsToolRegistered(n)
       /\ RegisterTool(n, CachesCat) /\ UNCHANGED <<keyVars, gwVars, handlerVars, procVars>>
  \/ \E c \in EngineCalls, n \in RegNames, a \in RegArgs, x \in RegCtx, k \in RegKinds :
       ExecuteTool(c, n, a, x, k) /\ UNCHANGED <<keyVars, gwVars, handlerVars, procVars>>
  \/ \E c \in EngineCalls, v \in RegValues :
       BodyReturn(c, v) /\ UNCHANGED <<regVars, keyVars, gwVars, handlerVars, procVars>>
  \/ \E c \in EngineCalls : BodyRaise(c) /\ UNCHANGED <<regVars, keyVars, gwVars, handlerVars, procVars>>
  \/ \E c \in EngineCalls : Consume(c) /\ UNCHANGED <<regVars, keyVars, gwVars, handlerVars, procVars>>
  \/ ClearAllCaches /\ UNCHANGED <<keyVars, gwVars, handlerVars, procVars>>

SpecCaches == RegistryInit /\ [][CachesNext]_vars

C27_NonDictArgumentsFail ==
  [][\A c \in EngineCalls :
       (Enters(c) /\ ~call'[c].args.isDict) =>
         /\ call'[c].pc = "returned"
         /\ ~call'[c].result.success
         /\ call'[c].result.error = "Arguments must be a dictionary"
         /\ call'[c].key = None
         /\ cache' = cache
         /\ ~call'[c].invoked /\ call'[c].coro = "none"
         /\ ~call'[c].effect]_vars

\* C27 witness: with a result in the tool's cache, an execute with
\* arguments that are not a dictionary has failed without invoking _execute.
C27_Witness ==
  \E c \in EngineCalls :
    /\ call[c].pc = "returned" /\ ~call[c].args.isDict
    /\ call[c].result.error = "Arguments must be a dictionary"
    /\ ~call[c].invoked
    /\ cache[call[c].inst] # EmptyDict

(***************************************************************************)
(* Who writes the cache.                                                   *)
(***************************************************************************)
\* The cache of instance i gains an entry, or an entry of it is replaced,
\* in this step.
Writes(i) ==
  \E k \in DOMAIN cache'[i] : k \notin DOMAIN cache[i] \/ cache'[i][k] # cache[i][k]

\* C28: a cache entry is written only in the step in which the _execute of
\* an execute call returns normally, and only if that call's deadline has
\* not expired; a call that returns a failure writes nothing and leaves
\* nothing to serve under its key, so the next call with the same arguments
\* is a miss.
C28_CacheWrittenOnlyBeforeDeadline ==
  [][\A c \in EngineCalls :
       /\ \A i \in Insts : Writes(i) =>
            /\ call[c].inst = i
            /\ call[c].coro = "running" /\ call'[c].coro = "returned"
            /\ call'[c].result.success
            /\ ~call[c].fired
       /\ (Returns(c) /\ ~call'[c].result.success) =>
            /\ \A i \in Insts : ~Writes(i)
            /\ call'[c].key # None =>
                 GetCachedResult(cache'[call'[c].inst], call'[c].key, now').ret = None]_vars

(***************************************************************************)
(* The gateway tools behind the engine: execute, with its result cache,    *)
(* in front of the bodies of connect, disconnect and list-servers.         *)
(***************************************************************************)
\* The tool instances get_gateway_tools builds, each with its own cache.
GwToolInsts ==
  <<"mcp_gateway_connect", "mcp_gateway_disconnect", "mcp_gateway_list_servers">>

\* The instance of a gateway tool.
GwInst(name) == CHOOSE i \in 1..Len(GwToolInsts) : GwToolInsts[i] = name

\* The arguments dict of a connect, a disconnect, a list-servers request.
ConnectDict(a) ==
  Dict(<<Item("server_name", JStr(a.server_name)),
         Item("transport_type", JStr(a.transport_type))>>
       \o (IF a.stdio_command # None
           THEN <<Item("stdio_command", JStr(a.stdio_command))>> ELSE <<>>)
       \o (IF a.sse_url # None THEN <<Item("sse_url", JStr(a.sse_url))>> ELSE <<>>))
DisconnectDict(n) == Dict(<<Item("server_name", JStr(n))>>)
ListServersDict == Dict(<<>>)

\* arguments["server_name"]
ServerNameOf(arguments) == Lookup(arguments.items, "server_name").v

\* The value a gateway body returned, written out: the result cache holds
\* it and hands it back as it is.
RECURSIVE RenderServers(_)
RenderServers(infos) ==
  IF infos = <<>> THEN ""
  ELSE Head(infos).name \o ":" \o Head(infos).status
       \o (IF Len(infos) > 1 THEN ", " ELSE "") \o RenderServers(Tail(infos))

GwData(g) ==
  CASE g.op = "connect" -> "connected " \o g.args.server_name
    [] g.op = "disconnect" -> "disconnected " \o g.args.server_name
    [] OTHER -> "connected_servers: [" \o RenderServers(g.result) \o "]"

\* What the gateway's callers connect to in this specification.
CachedConnectArgs == {ConnectArgs(n, "stdio", "node", None) : n \in GwNames}

\* Upstream calls return or raise.  The clock stands still in this
\* specification: no deadline expires and every cache entry is within its ttl.
CachedOutcomes == {"ok", "raise"}

\* execute of mcp_gateway_connect: the engine's steps up to the await of
\* _execute, and the body's start when the cache does not answer.
ExecuteConnect(c, a) ==
  /\ gw.pc = "idle"
  /\ Execute(c, GwInst("mcp_gateway_connect"), ConnectDict(a), NoCtx, "async")
  /\ IF call'[c].pc = "waiting" THEN MCPGatewayConnect(a) ELSE UNCHANGED gwVars

\* execute of mcp_gateway_disconnect.
ExecuteDisconnect(c, n) ==
  /\ gw.pc = "idle"
  /\ Execute(c, GwInst("mcp_gateway_disconnect"), DisconnectDict(n), NoCtx, "async")
  /\ IF call'[c].pc = "waiting" THEN MCPGatewayDisconnect(n) ELSE UNCHANGED gwVars

\* execute of mcp_gateway_list_servers.
ExecuteListServers(c) ==
  /\ gw.pc = "idle"
  /\ Execute(c, GwInst("mcp_gateway_list_servers"), ListServersDict, NoCtx, "swallow")
  /\ IF call'[c].pc = "waiting" THEN MCPGatewayListServers ELSE UNCHANGED gwVars

\* The body returned: execute caches the value and returns success.
GwBodyReturn(c) ==
  /\ gw.pc = "done" /\ gw.outcome = "returned"
  /\ BodyReturn(c, GwData(gw))
  /\ GwConsume

\* An exception left the body: execute returns the failure.
GwBodyRaise(c) ==
  /\ gw.pc = "done" /\ gw.outcome = "raised"
  /\ BodyRaise(c)
  /\ GwConsume

CachedGatewayInit ==
  /\ now = 0
  /\ enable_caching = TRUE
  /\ instName = [i \in Insts |->
       IF i <= Len(GwToolInsts) THEN GwToolInsts[i] ELSE None]
  /\ cache = [i \in Insts |-> EmptyDict]
  /\ call = [c \in CallIds |-> IdleCall]
  /\ worker = [c \in CallIds |-> "none"]
  /\ lastSuccess = [i \in Insts |-> EmptyDict]
  /\ RegInit
  /\ KeyInit
  /\ GwInit
  /\ HandlerInit
  /\ ProcInit

\* What neither the engine nor the gateway touches.
cachedFrame == <<regVars, keyVars, handlerVars, procVars>>

CachedGatewayNext ==
  \/ \E c \in EngineCalls, a \in CachedConnectArgs :
       ExecuteConnect(c, a) /\ UNCHANGED cachedFrame
  \/ \E c \in EngineCalls, n \in GwNames :
       ExecuteDisconnect(c, n) /\ UNCHANGED cachedFrame
  \/ \E c \in EngineCalls : ExecuteListServers(c) /\ UNCHANGED cachedFrame
  \/ \E o \in CachedOutcomes : ConnectOpened(o) /\ UNCHANGED gwFrame
  \/ \E o \in CachedOutcomes : ConnectInitialized(o) /\ UNCHANGED gwFrame
  \/ \E o \in CachedOutcomes : ConnectListed(o) /\ UNCHANGED gwFrame
  \/ \E o \in CachedOutcomes : DisconnectClosed(o) /\ UNCHANGED gwFrame
  \/ \E o \in CachedOutcomes : ListServersTools(o) /\ UNCHANGED gwFrame
  \/ \E o \in CachedOutcomes : ListServersResources(o) /\ UNCHANGED gwFrame
  \/ \E o \in CachedOutcomes : ListServersPrompts(o) /\ UNCHANGED gwFrame
  \/ \E c \in EngineCalls : GwBodyReturn(c) /\ UNCHANGED cachedFrame
  \/ \E c \in EngineCalls : GwBodyRaise(c) /\ UNCHANGED cachedFrame
  \/ \E c \in EngineCalls : Consume(c) /\ UNCHANGED <<regVars, keyVars, gwVars, handlerVars, procVars>>

SpecCachedGateway == CachedGatewayInit /\ [][CachedGatewayNext]_vars

\* C29: whenever execute of the connect tool returns success the named
\* server is in the connection table, and whenever execute of the
\* disconnect tool returns success the named server is absent from it.
C29_SuccessAgreesWithTable ==
  [][\A c \in EngineCalls :
       (Returns(c) /\ call'[c].result.success) =>
         /\ instName[call'[c].inst] = "mcp_gateway_connect" =>
              InTable(connected_servers', ServerNameOf(call'[c].args))
         /\ instName[call'[c].inst] = "mcp_gateway_disconnect" =>
              ~InTable(connected_servers', ServerNameOf(call'[c].args))]_vars

\* The values list-servers can return for a connection table: one entry
\* per server of the table, in its order, connected or in error.
ListingsOf(tbl) ==
  {"connected_servers: [" \o RenderServers(
       [i \in 1..Len(tbl) |-> [name |-> tbl[i].name, status |-> st[i]]]) \o "]" :
     st \in [1..Len(tbl) -> {"connected", "error"}]}

\* C30: a list-servers request that execute answers with success is
\* answered from the connection table as it is at the time of the request:
\* the value lists the servers of the table, no more and no fewer.
C30_ReadsAnswerFromCurrentTable ==
  [][\A c \in EngineCalls :
       (/\ Returns(c) /\ call'[c].result.success
        /\ instName[call'[c].inst] = "mcp_gateway_list_servers") =>
         call'[c].result.data \in ListingsOf(connected_servers')]_vars

(***************************************************************************)
(* Listings with a server filter.                                          *)
(***************************************************************************)
\* C32: list-tools and list-resources called with a server_name return
\* entries for that server only: one entry when it is connected, none for
\* any other server when it is not.
C32_FilterNamesOneServer ==
  [][((GwEnds("list_tools") \/ GwEnds("list_resources"))
        /\ gw'.args.server_name # None /\ gw'.outcome = "returned") =>
       \A k \in 1..Len(gw'.result) : gw'.result[k].name = gw'.args.server_name]_vars

(***************************************************************************)
(* One audit record per call.                                              *)
(***************************************************************************)
\* C34: every execute call, one answered from the cache included, has
\* written exactly one audit record when it returns.
C34_EveryCallAudited ==
  [][\A c \in EngineCalls : Returns(c) => Len(call'[c].audit) = 1]_vars

(***************************************************************************)
(* The statistics of the registry.                                         *)
(***************************************************************************)
\* get_tool_statistics
GetToolStatistics ==
  [total_tools |-> Len(tools),
   categories |-> [c \in DOMAIN categories |-> Len(categories[c])],
   tool_names |-> tools]

\* The sum of the values of a map of counts.
RECURSIVE SumCounts(_, _)
SumCounts(counts, keys) ==
  IF keys = {} THEN 0
  ELSE LET k == CHOOSE x \in keys : TRUE
       IN counts[k] + SumCounts(counts, keys \ {k})

\* C39: the category index and the name table agree: every name in a
\* category list is registered, every registered tool is in some category,
\* and the per-category counts of get_tool_statistics add up to total_tools.
C39_IndexAgreesWithNameTable ==
  /\ \A c \in DOMAIN categories : \A k \in 1..Len(categories[c]) :
       IsToolRegistered(categories[c][k])
  /\ \A n \in DOMAIN toolInst : CategoriesOf(n) # {}
  /\ SumCounts(GetToolStatistics.categories, DOMAIN GetToolStatistics.categories)
       = GetToolStatistics.total_tools

(***************************************************************************)
(* Two callers of one tool: execute calls that overlap.                    *)
(***************************************************************************)
ConcurrentArgs == {ArgsAB, ArgsOther}

\* Each caller's execute runs up to its await of _execute; the scheduler
\* then runs whichever caller is ready.  The clock stands still: both calls
\* are within one ttl window.
ConcurrentNext ==
  \/ \E c \in CallIds, a \in ConcurrentArgs :
       Execute(c, 1, a, NoCtx, "async") /\ UNCHANGED <<regVars, keyVars, gwVars, handlerVars, procVars>>
  \/ \E c \in CallIds, v \in RegValues :
       BodyReturn(c, v) /\ UNCHANGED <<regVars, keyVars, gwVars, handlerVars, procVars>>
  \/ \E c \in CallIds : BodyRaise(c) /\ UNCHANGED <<regVars, keyVars, gwVars, handlerVars, procVars>>
  \/ \E c \in CallIds : Consume(c) /\ UNCHANGED <<regVars, keyVars, gwVars, handlerVars, procVars>>

SpecConcurrentEngine == EngineInit /\ [][ConcurrentNext]_vars

\* C33: with caching enabled, no two invocations of _execute of one tool
\* with the same arguments are under way at the same time: a second execute
\* that starts while the first is still running does not invoke _execute.
C33_OneInvocationPerWindow ==
  enable_caching =>
    \A c \in CallIds, d \in CallIds :
      (/\ c # d
       /\ call[c].pc = "waiting" /\ call[d].pc = "waiting"
       /\ call[c].invoked /\ call[d].invoked
       /\ call[c].inst = call[d].inst) =>
        ~SamePairs(call[c].args, call[d].args)


(***************************************************************************)
(* OllamaBaseTool.make_ollama_request: one HTTP request to the Ollama API, *)
(* retried with exponential backoff.  The HTTP session belongs to aiohttp: *)
(* an attempt ends with status 200 and a body that parses, with status 200 *)
(* and a body response.json() raises on, with another status, with the     *)
(* session's timeout, or with a connection error.                          *)
(***************************************************************************)
\* The largest max_retries a configuration is given here.
MaxRetries == 2

\* AgentConfig.max_retries is an int without a validator.
RetrySettings == (0 - 1)..MaxRetries

AttemptOutcomes == {"200", "200 unreadable", "500", "timeout", "error"}

\* response.status == 200
Status200(o) == o \in {"200", "200 unreadable"}

\* 2**attempt
RECURSIVE Pow2(_)
Pow2(k) == IF k = 0 THEN 1 ELSE 2 * Pow2(k - 1)

\* A plausible bug: linear instead of exponential backoff.
BackoffLinear(attempt) == 2 * attempt

\* await asyncio.sleep(2**attempt)
Backoff(attempt) == Pow2(attempt)

\* make_ollama_request up to its first request; range(max_retries + 1) is
\* empty for a negative max_retries, and the function falls off its end.
MakeOllamaRequest(m) ==
  /\ ollama.pc = "idle"
  /\ ollama' = IF m + 1 <= 0
               THEN [OllamaIdle EXCEPT !.max_retries = m, !.pc = "done",
                                       !.outcome = "returned None"]
               ELSE [OllamaIdle EXCEPT !.max_retries = m, !.pc = "request"]

\* async with session.request(...) ends: return on a 200 whose body
\* parses; anything else is caught, raised again on the last attempt and
\* slept on before it.
RequestEnded(o) ==
  /\ ollama.pc = "request"
  /\ LET r == [ollama EXCEPT !.attempts = Append(@, o)]
     IN ollama' =
        IF o = "200" THEN [r EXCEPT !.pc = "done", !.outcome = "returned"]
        ELSE IF ollama.attempt = ollama.max_retries
        THEN [r EXCEPT !.pc = "done", !.outcome = "raised"]
        ELSE [r EXCEPT !.pc = "sleep"]

\* The backoff sleep ends and the loop goes to its next attempt.
SleepEnded ==
  /\ ollama.pc = "sleep"
  /\ ollama' = [ollama EXCEPT !.slept = Append(@, Backoff(ollama.attempt)),
                              !.attempt = @ + 1, !.pc = "request"]

ollamaFrame == <<engineVars, regVars, keyVars, gwVars, handlerVars, parked, server>>

OllamaInit ==
  /\ EngineIdle /\ RegInit /\ KeyInit /\ GwInit /\ HandlerInit /\ ProcInit

OllamaNext ==
  \/ \E m \in RetrySettings : MakeOllamaRequest(m) /\ UNCHANGED ollamaFrame
  \/ \E o \in AttemptOutcomes : RequestEnded(o) /\ UNCHANGED ollamaFrame
  \/ SleepEnded /\ UNCHANGED ollamaFrame

SpecOllama == OllamaInit /\ [][OllamaNext]_vars

\* The session's total timeout ends every attempt, and a sleep ends.
SpecOllamaFair ==
  /\ SpecOllama
  /\ WF_vars(\E o \in AttemptOutcomes : RequestEnded(o) /\ UNCHANGED ollamaFrame)
  /\ WF_vars(SleepEnded /\ UNCHANGED ollamaFrame)

\* The waits so far are 1, 2, 4, ...: 2^k after failed attempt k.
BackoffSchedule ==
  /\ \A k \in 1..Len(ollama.slept) : ollama.slept[k] = Pow2(k - 1)
  /\ Len(ollama.slept) =
       IF ollama.pc \in {"sleep", "done"} /\ ollama.attempts # <<>>
       THEN Len(ollama.attempts) - 1 ELSE Len(ollama.attempts)

OllamaRetryInv ==
  /\ Len(ollama.attempts) <= (IF ollama.max_retries < 0 THEN 0 ELSE ollama.max_retries + 1)
  /\ ollama.max_retries >= 0 =>
       /\ BackoffSchedule
       /\ \A k \in 1..Len(ollama.attempts) :
            ollama.attempts[k] = "200" =>
              k = Len(ollama.attempts) /\ ollama.outcome = "returned"
       /\ ollama.outcome = "returned" =>
            ollama.attempts[Len(ollama.attempts)] = "200"
       /\ ollama.outcome = "raised" =>
            Len(ollama.attempts) = ollama.max_retries + 1
       /\ ollama.pc = "done" => ollama.outcome \in {"returned", "raised"}

\* C36 (as amended): for max_retries >= 0, make_ollama_request makes at
\* most max_retries + 1 attempts and terminates; it returns the response of
\* the first attempt that has status 200 and a body that parses, without
\* further attempts; after failed attempt k < max_retries (a status 200
\* whose body does not parse included) it waits 2^k and retries; after
\* failed attempt number max_retries it raises.
C36_RetryWithBackoff ==
  /\ []OllamaRetryInv
  /\ (ollama.pc \in {"request", "sleep"}) ~> (ollama.pc = "done")

\* Two failed attempts, one of them a 200 with an unreadable body, waits
\* of 1 and 2, and the third attempt's response returned.
C36_Witness ==
  /\ ollama.pc = "done" /\ ollama.outcome = "returned"
  /\ ollama.max_retries = 2
  /\ ollama.slept = <<1, 2>>
  /\ Len(ollama.attempts) = 3
  /\ ollama.attempts[2] = "200 unreadable"

\* C36 as stated: every attempt with status 200 is the last attempt and
\* its response is returned, and the function ends by returning such a
\* response or by raising after attempt number max_retries.
C36_AsStated ==
  /\ \A k \in 1..Len(ollama.attempts) :
       Status200(ollama.attempts[k]) =>
         k = Len(ollama.attempts) /\ ollama.outcome = "returned"
  /\ ollama.pc = "done" =>
       \/ /\ ollama.outcome = "returned"
          /\ ollama.attempts # <<>>
          /\ Status200(ollama.attempts[Len(ollama.attempts)])
       \/ /\ ollama.outcome = "raised"
          /\ Len(ollama.attempts) = ollama.max_retries + 1


(***************************************************************************)
(* OllamaMCPServer over stdio: run_stdio installs the signal handlers,     *)
(* serves until server.run ends (the MCP SDK's loop over the input stream) *)
(* and then, in its finally block, awaits shutdown.                        *)
(***************************************************************************)
\* The tools of this specification; the Ollama and the GitHub tools define
\* cleanup, the git tools do not.
ServerTools == {"ollama_list_models", "github_get_commit", "git_status"}
CleanupTools == {"ollama_list_models", "github_get_commit"}
ServerCat == "general"

\* hasattr(tool, "cleanup")
HasCleanup(n) == n \in CleanupTools

CleanupOutcomes == {"ok", "raise"}

\* The loop of shutdown from position k of list_tools(): it is suspended
\* at the next tool that has a cleanup; after the last tool shutdown
\* clears all caches and returns.
ShutdownFrom(srv, k) ==
  LET rest == {j \in k..Len(srv.todo) : HasCleanup(srv.todo[j])}
  IN IF rest = {}
     THEN /\ server' = [srv EXCEPT !.pc = "stopped", !.idx = 0]
          /\ ClearAllCaches
     ELSE /\ server' = [srv EXCEPT !.pc = "cleanup",
                          !.idx = CHOOSE j \in rest : \A l \in rest : j <= l]
          /\ UNCHANGED <<engineVars, regVars>>

\* run_stdio up to its await of server.run: handlers installed, running set.
RunStdio ==
  /\ server.pc = "created"
  /\ server' = [server EXCEPT !.pc = "serving", !.running = TRUE]
  /\ UNCHANGED <<engineVars, regVars>>

\* signal_handler(signum, frame), for SIGINT and for SIGTERM.
SignalHandler ==
  /\ server.pc \in {"serving", "cleanup"}
  /\ server' = [server EXCEPT !.running = FALSE, !.signalled = TRUE]
  /\ UNCHANGED <<engineVars, regVars>>

\* await server.run(...) ends, by returning when the client has closed the
\* input stream or by raising; the finally block starts shutdown.
ServerRunEnded ==
  /\ server.pc = "serving"
  /\ ShutdownFrom([server EXCEPT !.running = FALSE, !.todo = tools], 1)

\* A plausible bug: the first cleanup that raises ends the loop.
CleanupEndedStopsAtRaise(o) ==
  /\ server.pc = "cleanup"
  /\ LET srv == [server EXCEPT
                   !.cleaned = Append(@, [name |-> server.todo[server.idx], o |-> o])]
     IN ShutdownFrom(srv, IF o = "raise" THEN Len(server.todo) + 1
                          ELSE server.idx + 1)

\* await tool.cleanup() ends: an Exception is logged and the loop goes on.
CleanupEnded(o) ==
  /\ server.pc = "cleanup"
  /\ LET srv == [server EXCEPT
                   !.cleaned = Append(@, [name |-> server.todo[server.idx], o |-> o])]
     IN ShutdownFrom(srv, server.idx + 1)

serverFrame == <<keyVars, gwVars, handlerVars, parked, ollama>>

ServerNext ==
  \/ \E n \in ServerTools :
       /\ server.pc = "created" /\ ~IsToolRegistered(n)
       /\ RegisterTool(n, ServerCat) /\ UNCHANGED <<serverFrame, server>>
  \/ RunStdio /\ UNCHANGED serverFrame
  \/ \E c \in EngineCalls, n \in ServerTools :
       /\ server.pc = "serving" /\ IsToolRegistered(n)
       /\ ExecuteTool(c, n, ArgsAB, NoCtx, "async") /\ UNCHANGED <<serverFrame, server>>
  \/ \E c \in EngineCalls, v \in RegValues :
       BodyReturn(c, v) /\ UNCHANGED <<regVars, serverFrame, server>>
  \/ \E c \in EngineCalls : Consume(c) /\ UNCHANGED <<regVars, serverFrame, server>>
  \/ SignalHandler /\ UNCHANGED serverFrame
  \/ ServerRunEnded /\ UNCHANGED serverFrame
  \/ \E o \in CleanupOutcomes : CleanupEnded(o) /\ UNCHANGED serverFrame

SpecServer == RegistryInit /\ [][ServerNext]_vars

\* What the server does on its own happens: it starts serving, and each
\* awaited cleanup ends.  When server.run ends is the client's choice.
SpecServerFair ==
  /\ SpecServer
  /\ WF_vars(RunStdio /\ UNCHANGED serverFrame)
  /\ WF_vars(\E o \in CleanupOutcomes : CleanupEnded(o) /\ UNCHANGED serverFrame)

\* cleanup was awaited on tool n exactly once.
CleanedOnce(srv, n) ==
  Cardinality({k \in 1..Len(srv.cleaned) : srv.cleaned[k].name = n}) = 1

\* C37: when shutdown returns, cleanup has been called once on every
\* registered tool that provides one, also after a cleanup that raised;
\* every registered tool's cache is empty and running is false.
C37_ShutdownCleansEveryTool ==
  [][(server.pc # "stopped" /\ server'.pc = "stopped") =>
       /\ \A n \in DOMAIN toolInst' :
            /\ HasCleanup(n) => CleanedOnce(server', n)
            /\ cache'[toolInst'[n]] = EmptyDict
       /\ \A k \in 1..Len(server'.cleaned) : HasCleanup(server'.cleaned[k].name)
       /\ ~server'.running]_vars

\* C37 witness: shutdown has returned, the first cleanup raised and the
\* second was still called, and a cache that had an entry was emptied.
C37_Witness ==
  /\ server.pc = "stopped"
  /\ Len(server.cleaned) = 2
  /\ server.cleaned[1].o = "raise"
  /\ server.cleaned[2].o = "ok"
  /\ "git_status" \in DOMAIN toolInst
  /\ regCall.op = "clear_all_caches" /\ regCall.dropped # {}

\* C38: once the server is serving, a SIGINT or SIGTERM leads to shutdown
\* being executed, whether or not the client closes the input stream.
C38_SignalLeadsToShutdown ==
  (server.pc = "serving" /\ server.signalled) ~> (server.pc = "stopped")


(***************************************************************************)
(* Two gateway operations on one event loop: while one body is suspended   *)
(* at an await the other runs.  gw is the body that runs next, parked the  *)
(* suspended one; both work on the one connection table.                   *)
(***************************************************************************)
\* The event loop resumes the other body: the running one is suspended at
\* its await (or there is none), the suspended one goes on.
Yield ==
  /\ gw.pc # "done"
  /\ gw.pc # "idle" \/ parked.pc # "idle"
  /\ gw' = parked
  /\ parked' = gw
  /\ UNCHANGED <<connected_servers, sessions, nextSession>>

TaskConnectArgs == {ConnectArgs(n, "stdio", "node", None) : n \in GwNames}
TaskOutcomes == {"ok", "raise"}

\* The bound of this specification on the interleavings: a new operation
\* starts while the table is still as the suspended one found it, so that at
\* most one connect or disconnect completes during one suspension.
TaskMayStart == parked.pc = "idle" \/ parked.before = connected_servers

tasksFrame == <<engineVars, regVars, keyVars, handlerVars, ollama, server>>

TasksNext ==
  \/ \E a \in TaskConnectArgs :
       TaskMayStart /\ MCPGatewayConnect(a) /\ UNCHANGED <<tasksFrame, parked>>
  \/ \E o \in TaskOutcomes : ConnectOpened(o) /\ UNCHANGED <<tasksFrame, parked>>
  \/ \E o \in TaskOutcomes : ConnectInitialized(o) /\ UNCHANGED <<tasksFrame, parked>>
  \/ \E o \in TaskOutcomes : ConnectListed(o) /\ UNCHANGED <<tasksFrame, parked>>
  \/ \E n \in GwNames :
       TaskMayStart /\ MCPGatewayDisconnect(n) /\ UNCHANGED <<tasksFrame, parked>>
  \/ \E o \in TaskOutcomes : DisconnectClosed(o) /\ UNCHANGED <<tasksFrame, parked>>
  \/ TaskMayStart /\ MCPGatewayListServers /\ UNCHANGED <<tasksFrame, parked>>
  \/ \E o \in TaskOutcomes : ListServersTools(o) /\ UNCHANGED <<tasksFrame, parked>>
  \/ \E o \in TaskOutcomes : ListServersResources(o) /\ UNCHANGED <<tasksFrame, parked>>
  \/ \E o \in TaskOutcomes : ListServersPrompts(o) /\ UNCHANGED <<tasksFrame, parked>>
  \/ \E f \in GwFilters :
       TaskMayStart /\ MCPGatewayListTools(f) /\ UNCHANGED <<tasksFrame, parked>>
  \/ \E o \in TaskOutcomes : ListToolsQueried(o) /\ UNCHANGED <<tasksFrame, parked>>
  \/ \E f \in GwFilters :
       TaskMayStart /\ MCPGatewayListResources(f) /\ UNCHANGED <<tasksFrame, parked>>
  \/ \E o \in TaskOutcomes : ListResourcesQueried(o) /\ UNCHANGED <<tasksFrame, parked>>
  \/ GwConsume /\ UNCHANGED <<tasksFrame, parked>>
  \/ Yield /\ UNCHANGED tasksFrame

SpecGatewayTasks == GatewayInit /\ [][TasksNext]_vars

\* The two bodies are connects for one server name, both in flight.
ConnectsInFlight ==
  /\ gw.op = "connect" /\ parked.op = "connect"
  /\ gw.args.server_name = parked.args.server_name
  /\ gw.pc # "idle" /\ parked.pc # "idle"

\* C31: of two concurrent connects for one server name at most one gets
\* past the 'already connected' check and opens a session, and no opened
\* session is left without an entry in the connection table.
C31_ConcurrentConnectsOpenOneSession ==
  /\ ConnectsInFlight => (gw.session = 0 \/ parked.session = 0)
  /\ \A x \in sessions :
       \E k \in 1..Len(connected_servers) : connected_servers[k].session = x

\* An unfiltered listing ends in this step.
ListingEnds ==
  /\ GwEnds("list_servers") \/ GwEnds("list_tools") \/ GwEnds("list_resources")
  /\ IteratesTable(gw')

\* C35: a listing during whose suspension a connect or a disconnect
\* completed returns, with an entry for every server that was connected
\* when it started and still is.
C35_ListingSurvivesTableChange ==
  [][(ListingEnds /\ gw'.before # connected_servers') =>
       /\ gw'.outcome = "returned"
       /\ \A k \in 1..Len(gw'.before) :
            InTable(connected_servers', gw'.before[k].name) =>
              \E j \in 1..Len(gw'.result) :
                gw'.result[j].name = gw'.before[k].name]_vars

====
